---- MODULE Spec2Model ----
(***************************************************************************)
(* Model of the TeamFinder messaging-service                               *)
(* (src/services/messaging-service/src/index.js): the durable store        *)
(* (conversations, conversation_members, messages), the Redis cache        *)
(* (recent-message lists, unread hashes, presence sets and counters), the  *)
(* HTTP handlers and the Socket.IO handlers.                               *)
(*                                                                         *)
(* Handlers are async functions: every `await` is a point where another    *)
(* handler may run.  A handler is therefore a small process whose steps    *)
(* are the pieces of code between two awaits; a step issues at most one    *)
(* store/cache command, whose effect is applied when it is issued.         *)
(*                                                                         *)
(* Three specifications share the variables:                               *)
(*   SpecDm   - concurrent create-or-get direct conversation calls         *)
(*   SpecMsg  - send / list / mark-read / cache expiry on a conversation   *)
(*   SpecPres - socket connect / join / leave / disconnect presence        *)
(***************************************************************************)
EXTENDS Integers, Sequences, FiniteSets, TLC

\* ---------------------------------------------------------------- bounds
\* number of create-or-get-DM requests issued
NumDmCalls == 2
\* number of send handlers that may be in flight at once
NumSenders == 1
\* number of message rows the store may hold
MaxMsgs == 3
\* number of sockets that ever connect
NumSockets == 2
\* number of conversation:join / conversation:leave events one socket issues
MaxOps == 2
\* number of group-conversation sync requests that may be in flight at once
NumSyncs == 2
\* number of messages sent in SpecSync
MaxSyncSends == 1
\* number of send handlers in flight at once in SpecConc
NumConcurrent == 2

\* ------------------------------------------------------- program constants
\* redis.ltrim(key, 0, 199): index of the last cache entry kept
CacheTrimEnd == 199
\* Math.min(Math.max(limitRaw, 1), 200): largest page of listMessages
MaxListLimit == 200
\* Number(request.query.limit || 50): default page of listMessages
DefaultListLimit == 50

\* user ids; ORDER BY user_id ASC is their numeric order
Users == {1, 2, 3}
\* the pre-existing DM conversation of SpecMsg and SpecPres, and its members
BaseConv == 1
BaseMembers == {1, 2}
\* conversation ids requests may name (2 names no conversation in SpecMsg)
ConvIds == {1, 2}
\* message bodies a client may submit: empty, whitespace only, text
Bodies == {"", " ", "hi"}
\* raw ?limit= values of listMessages (0 stands for an absent parameter)
ListLimits == {0, 1, 2, 300}

Null == "null"

\* the send handlers of the model: those of SpecMsg and those of SpecConc
Senders == 1..(IF NumSenders > NumConcurrent THEN NumSenders ELSE NumConcurrent)

VARIABLES
  \* durable store (postgres)
  conversations,      \* committed rows of table conversations
  members,            \* committed rows of conversation_members: <<conv, user>>
  messages,           \* rows of table messages, in insertion order
  nextConvId,         \* ids handed out by gen_random_uuid(), as a counter
  dbClock,            \* NOW() of the store
  \* redis
  cache,              \* conversation:<id>:messages lists, head first
  unread,             \* unread:<user> hashes, missing field = 0
  onlineUsers,        \* presence:online-users
  userSocketCount,    \* presence:user-socket-count:<user>, missing key = 0
  convPresenceSet,    \* presence:conversation:<id>:users
  convPresenceCount,  \* presence:conversation:<id>:counts, missing field = 0
  \* kafka and socket.io output
  onlineEmits,        \* presence:update isOnline=true broadcasts per (conv,user)
  offlineEmits,       \* presence:update isOnline=false broadcasts per (conv,user)
  deletedEmits,       \* conversation:deleted deliveries: per conversation, the sockets reached
  \* handlers
  dm,                 \* create-or-get-DM requests
  send,               \* send handlers (HTTP and message:send)
  lastAcked,          \* per conversation: message of the last successful send, 0 once a list was served
  sock,               \* sockets and their handlers
  sync,               \* group-conversation sync requests
  lastSync,           \* arguments of the sync committed last, NoSync once the store changed otherwise
  \* history of the run
  overlapped,         \* two handlers have been in flight at once
  misuse,             \* a socket joined a conversation twice or left one it had not joined
  faulted,            \* a cache command has failed
  \* class service
  classSvc            \* the group of the class store and the group operations

vars == <<conversations, members, messages, nextConvId, dbClock,
          cache, unread, onlineUsers, userSocketCount, convPresenceSet,
          convPresenceCount, onlineEmits, offlineEmits, deletedEmits,
          dm, send, lastAcked, sock, sync, lastSync,
          overlapped, misuse, faulted, classSvc>>

storeVars == <<conversations, members, messages, nextConvId, dbClock>>
msgCacheVars == <<cache, unread>>
presenceVars == <<onlineUsers, userSocketCount, convPresenceSet, convPresenceCount>>
outVars == <<onlineEmits, offlineEmits, deletedEmits>>
histVars == <<overlapped, misuse, faulted>>
msgProcVars == <<send, lastAcked>>
syncVars == <<sync, lastSync>>

\* ------------------------------------------------------------ store reads
MembersOf(c, mem) == {u \in Users : <<c, u>> \in mem}

isMember_AnyUser(c, u) == \E x \in Users : <<c, x>> \in members

isMember_IfJoined(c, u) ==
  /\ <<c, u>> \in members
  /\ \E s \in 1..NumSockets : sock[s].user = u /\ c \in sock[s].rooms

\* isMember(conversationId, userId)
isMember(c, u) == <<c, u>> \in members

\* getConversationMemberIds(conversationId)
getConversationMemberIds(c) == MembersOf(c, members)

findExistingDmConversation_Ordered(a, b, convs, mem) ==
  IF a > b THEN {}
  ELSE {c \in convs : /\ c.type = "DM"
                      /\ <<c.id, a>> \in mem
                      /\ <<c.id, b>> \in mem
                      /\ \A x \in MembersOf(c.id, mem) : x \in {a, b}}

\* findExistingDmConversation(userA, userB): the DM conversations that have
\* both users as members and no member besides them.  The query is LIMIT 1
\* without ORDER BY: any element may be the row returned.
findExistingDmConversation(a, b, convs, mem) ==
  {c \in convs : /\ c.type = "DM"
                 /\ <<c.id, a>> \in mem
                 /\ <<c.id, b>> \in mem
                 /\ \A x \in MembersOf(c.id, mem) : x \in {a, b}}

DmRow(id) == [id |-> id, type |-> "DM", class_id |-> Null, group_id |-> Null]

\* ---------------------------------------------------- initial components
\* route, type, args: the endpoint and the raw body of the request
DmIdle == [pc |-> "idle", requester |-> 0, other |-> 0, conv |-> 0,
           recheck |-> FALSE, status |-> 0, created |-> FALSE,
           route |-> "none", type |-> "none", args |-> <<>>]

\* joinedBy: which of the sender's registered live sockets held the
\* conversation in joinedConversations when isMember was answered
SendIdle == [pc |-> "idle", path |-> "none", conv |-> 0, user |-> 0,
             body |-> "", msg |-> 0, cacheOk |-> TRUE, published |-> FALSE,
             emitted |-> FALSE, result |-> "none", joinedBy |-> "none"]

\* hadJoined, hadRoom: whether the conversation was in joinedConversations
\* and the socket in the room when the handler started
NoOp == [kind |-> "none", conv |-> 0, pc |-> "none", count |-> 0, online |-> {},
         hadJoined |-> FALSE, hadRoom |-> FALSE]

\* no typing event has been handled
NoTyping == [conv |-> 0, ack |-> "none", to |-> {}]

\* no sync is the last change of the store (no request has group "")
NoSync == [group |-> "", classId |-> Null, want |-> <<>>]

\* a sync request: its arguments after normalisation, the GROUP row it
\* found (and locked) or inserted, what its transaction has done so far
SyncIdle == [pc |-> "idle", group |-> "", classId |-> Null, want |-> <<>>,
             conv |-> 0, found |-> FALSE, created |-> FALSE, deleted |-> FALSE,
             newClass |-> Null, status |-> 0, final |-> <<>>]

\* cred: the token and the identity provider's state at the handshake;
\* lost: requests that arrived before a listener was registered;
\* lastTyping: what the last typing handler of the socket did
SockInit == [st |-> "none", user |-> 0, registered |-> FALSE,
             cred |-> <<"unset", "unset">>, lost |-> 0, lastTyping |-> NoTyping,
             joined |-> <<>>, rooms |-> {}, everJoined |-> {}, ops |-> 0,
             conn |-> "none", connCount |-> 0,
             op |-> NoOp, lastAck |-> "none",
             disc |-> "none", todo |-> <<>>, discCount |-> 0, discErr |-> FALSE]

\* op q of the class service: its kind, its position, the member list it
\* read after its commit
GroupOpIdle == [pc |-> "idle", kind |-> "none", list |-> <<>>]

\* no group in the class store, no group operation running; started: the
\* operations begun so far; created: the group has been created;
\* syncFailed: a sync call was answered with an error
ClassIdle == [exists |-> FALSE, created |-> FALSE, members |-> <<>>,
              started |-> 0, syncFailed |-> FALSE,
              op |-> [q \in 1..NumSyncs |-> GroupOpIdle]]

InitProcesses ==
  /\ classSvc = ClassIdle
  /\ unread = [u \in Users |-> [c \in ConvIds |-> 0]]
  /\ onlineUsers = {}
  /\ userSocketCount = [u \in Users |-> 0]
  /\ convPresenceSet = [c \in ConvIds |-> {}]
  /\ convPresenceCount = [c \in ConvIds |-> [u \in Users |-> 0]]
  /\ onlineEmits = [c \in ConvIds |-> [u \in Users |-> 0]]
  /\ offlineEmits = [c \in ConvIds |-> [u \in Users |-> 0]]
  /\ deletedEmits = [c \in ConvIds |-> {}]
  /\ dm = [p \in 1..NumDmCalls |-> DmIdle]
  /\ send = [p \in Senders |-> SendIdle]
  /\ lastAcked = [c \in ConvIds |-> 0]
  /\ sock = [s \in 1..NumSockets |-> SockInit]
  /\ sync = [p \in 1..NumSyncs |-> SyncIdle]
  /\ lastSync = NoSync
  /\ overlapped = FALSE
  /\ misuse = FALSE
  /\ faulted = FALSE

\* no message stored, no list cached, nothing running
InitCommon ==
  /\ messages = <<>>
  /\ dbClock = 0
  /\ cache = [c \in ConvIds |-> <<>>]
  /\ InitProcesses

\* the store after init.sql: no rows
Init ==
  /\ InitCommon
  /\ conversations = {}
  /\ members = {}
  /\ nextConvId = 1

\* ============================================================ SpecDm
\* POST /conversations/dm: validation, then createOrGetDmConversation
DmRequest(p, a, b) ==
  /\ dm[p].pc = "idle"
  /\ dm' = [dm EXCEPT ![p] =
       IF a = b
         THEN [@ EXCEPT !.pc = "done", !.requester = a, !.other = b, !.status = 400]
         ELSE [@ EXCEPT !.pc = "find", !.requester = a, !.other = b]]
  /\ UNCHANGED <<classSvc, storeVars, msgCacheVars, presenceVars, outVars, msgProcVars, syncVars, sock, histVars>>

\* createOrGetDmConversation: the lookup outside the transaction
DmFind(p) ==
  /\ dm[p].pc = "find"
  /\ LET found == findExistingDmConversation(dm[p].requester, dm[p].other,
                                             conversations, members)
     IN IF found = {}
          THEN dm' = [dm EXCEPT ![p].pc = "recheck"]
          ELSE \E c \in found :
                 dm' = [dm EXCEPT ![p].pc = "members", ![p].conv = c.id,
                                  ![p].created = FALSE]
  /\ UNCHANGED <<classSvc, storeVars, msgCacheVars, presenceVars, outVars, msgProcVars, syncVars, sock, histVars>>

\* BEGIN and the re-check inside the transaction.  The transaction runs at
\* READ COMMITTED and the query takes no lock: it sees the committed rows.
DmRecheck(p) ==
  /\ dm[p].pc = "recheck"
  /\ LET found == findExistingDmConversation(dm[p].requester, dm[p].other,
                                             conversations, members)
     IN IF found = {}
          THEN dm' = [dm EXCEPT ![p].pc = "insertConv", ![p].recheck = FALSE]
          ELSE \E c \in found :
                 dm' = [dm EXCEPT ![p].pc = "commit", ![p].conv = c.id,
                                  ![p].recheck = TRUE]
  /\ UNCHANGED <<classSvc, storeVars, msgCacheVars, presenceVars, outVars, msgProcVars, syncVars, sock, histVars>>

\* INSERT INTO conversations ... RETURNING id: the row stays private to the
\* transaction until COMMIT
DmInsertConversation(p) ==
  /\ dm[p].pc = "insertConv"
  /\ dm' = [dm EXCEPT ![p].pc = "insertMembers", ![p].conv = nextConvId]
  /\ nextConvId' = nextConvId + 1
  /\ UNCHANGED <<classSvc, conversations, members, messages, dbClock, msgCacheVars,
                 presenceVars, outVars, msgProcVars, syncVars, sock, histVars>>

\* INSERT INTO conversation_members ... ON CONFLICT DO NOTHING (private too)
DmInsertMembers(p) ==
  /\ dm[p].pc = "insertMembers"
  /\ dm' = [dm EXCEPT ![p].pc = "commit"]
  /\ UNCHANGED <<classSvc, storeVars, msgCacheVars, presenceVars, outVars, msgProcVars, syncVars, sock, histVars>>

\* COMMIT: the rows the transaction inserted become visible together
DmCommit(p) ==
  /\ dm[p].pc = "commit"
  /\ IF dm[p].recheck
       THEN UNCHANGED <<classSvc, conversations, members>>
       ELSE /\ conversations' = conversations \cup {DmRow(dm[p].conv)}
            /\ members' = members \cup {<<dm[p].conv, dm[p].requester>>,
                                        <<dm[p].conv, dm[p].other>>}
  /\ dm' = [dm EXCEPT ![p].pc = "members", ![p].created = ~dm[p].recheck]
  /\ UNCHANGED <<classSvc, messages, nextConvId, dbClock, msgCacheVars, presenceVars,
                 outVars, msgProcVars, syncVars, sock, histVars>>

\* getConversationMemberIds and the reply (201 when created, else 200)
DmReply(p) ==
  /\ dm[p].pc = "members"
  /\ dm' = [dm EXCEPT ![p].pc = "done",
                      ![p].status = IF dm[p].created THEN 201 ELSE 200]
  /\ UNCHANGED <<classSvc, storeVars, msgCacheVars, presenceVars, outVars, msgProcVars, syncVars, sock, histVars>>

NextDm ==
  \/ \E p \in 1..NumDmCalls, a \in Users, b \in Users : DmRequest(p, a, b)
  \/ \E p \in 1..NumDmCalls : DmFind(p)
  \/ \E p \in 1..NumDmCalls : DmRecheck(p)
  \/ \E p \in 1..NumDmCalls : DmInsertConversation(p)
  \/ \E p \in 1..NumDmCalls : DmInsertMembers(p)
  \/ \E p \in 1..NumDmCalls : DmCommit(p)
  \/ \E p \in 1..NumDmCalls : DmReply(p)

SpecDm == Init /\ [][NextDm]_vars

\* ---------------------------------------------------------------- C1
DmCallsDone == \A p \in 1..NumDmCalls : dm[p].pc \in {"idle", "done"}

DmConversationsOf(a, b) ==
  {c \in conversations : c.type = "DM" /\ MembersOf(c.id, members) = {a, b}}

\* C1: whatever the interleaving of create-or-get-DM calls for a pair of
\* distinct users (in either argument order), once the calls have returned
\* the store holds exactly one DM conversation whose member set is the
\* pair, and every call returned that conversation's id.
C1_SingleDmPerPair ==
  DmCallsDone =>
    \A p \in 1..NumDmCalls :
      (dm[p].pc = "done" /\ dm[p].status # 400) =>
        /\ Cardinality(DmConversationsOf(dm[p].requester, dm[p].other)) = 1
        /\ \A q \in 1..NumDmCalls :
             (dm[q].pc = "done" /\ {dm[q].requester, dm[q].other}
                                     = {dm[p].requester, dm[p].other})
               => dm[q].conv = dm[p].conv

\* ============================================================ SpecMsg
Min(a, b) == IF a < b THEN a ELSE b
Max(a, b) == IF a > b THEN a ELSE b

RECURSIVE Reverse(_)
\* Array.prototype.reverse
Reverse(s) == IF s = <<>> THEN <<>> ELSE Append(Reverse(Tail(s)), Head(s))

\* redis LPUSH key value: the value becomes the head of the list
lpush(list, value) == <<value>> \o list

\* redis LTRIM key 0 stop / LRANGE key 0 stop: the entries at indexes 0..stop
ltrim(list, stop) == SubSeq(list, 1, Min(stop + 1, Len(list)))
lrange(list, stop) == SubSeq(list, 1, Min(stop + 1, Len(list)))

\* JSON.stringify(message) and JSON.parse(item): a cache entry is the text
\* of the row; text that does not parse yields null and is filtered out
JsonStringify(row) == [json |-> row]
Parses(item) == "json" \in DOMAIN item
JsonParse(item) == item.json

RECURSIVE ParseAll(_)
\* cached.map(JSON.parse).filter(Boolean)
ParseAll(items) ==
  IF items = <<>> THEN <<>>
  ELSE IF Parses(Head(items))
         THEN <<JsonParse(Head(items))>> \o ParseAll(Tail(items))
         ELSE ParseAll(Tail(items))

\* String(body).trim() of the three bodies
Trim(b) == IF b = " " THEN "" ELSE b

\* limit = Number(query.limit || 50) clamped into 1..200
ClampLimit(raw) ==
  LET n == IF raw = 0 THEN DefaultListLimit ELSE raw
  IN Min(Max(n, 1), MaxListLimit)

MsgIds(c) == {i \in 1..Len(messages) : messages[i].conversation_id = c}

\* SELECT ... FROM messages WHERE conversation_id = c
\* ORDER BY created_at DESC LIMIT n: every result the store may return
\* (rows with the same created_at come in any order)
SelectRecent(c, n) ==
  LET ids == MsgIds(c)
      k == Cardinality(ids)
      orders == {f \in [1..k -> ids] :
                   /\ \A i, j \in 1..k : i # j => f[i] # f[j]
                   /\ \A i \in 1..k : \A j \in 1..k :
                        i < j => messages[f[i]].created_at >= messages[f[j]].created_at}
  IN {[i \in 1..Min(n, k) |-> messages[f[i]]] : f \in orders}

RECURSIVE LpushAll(_, _)
\* for (const msg of rows) await redis.lpush(cacheKey, JSON.stringify(msg))
LpushAll(list, rows) ==
  IF rows = <<>> THEN list
  ELSE LpushAll(lpush(list, JsonStringify(Head(rows))), Tail(rows))

RECURSIVE SortedSeq(_)
\* ORDER BY user_id ASC
SortedSeq(S) ==
  IF S = {} THEN <<>>
  ELSE LET m == CHOOSE x \in S : \A y \in S : x <= y
       IN <<m>> \o SortedSeq(S \ {m})

SendInFlight(p) == send[p].pc \notin {"idle", "done"}

SeqContains(seq, x) == \E i \in 1..Len(seq) : seq[i] = x

\* the store of SpecMsg: one DM conversation between users 1 and 2
InitMsg ==
  /\ InitCommon
  /\ conversations = {DmRow(BaseConv)}
  /\ members = {<<BaseConv, u>> : u \in BaseMembers}
  /\ nextConvId = BaseConv + 1

\* POST /conversations/:id/messages rejects a falsy body with 400;
\* message:send rejects a body that is empty after trimming.  The value
\* is the body that goes on, or Null when the request is rejected.
ValidatedBody(path, b) ==
  IF path = "http"
    THEN (IF b = "" THEN Null ELSE b)
    ELSE (IF Trim(b) = "" THEN Null ELSE Trim(b))

\* arrival of a send request and its input validation
SendArrives(p, path, c, u, b) ==
  /\ send[p].pc = "idle"
  /\ LET v == ValidatedBody(path, b)
     IN send' = [send EXCEPT ![p] =
          IF v = Null
            THEN [SendIdle EXCEPT !.pc = "done", !.path = path, !.conv = c,
                                  !.user = u, !.body = b, !.result = "invalid"]
            ELSE [SendIdle EXCEPT !.pc = "check", !.path = path, !.conv = c,
                                  !.user = u, !.body = v]]
  /\ overlapped' = (overlapped \/ \E q \in Senders : q # p /\ SendInFlight(q))
  /\ UNCHANGED <<classSvc, storeVars, msgCacheVars, presenceVars, outVars, dm, syncVars,
                 lastAcked, sock, misuse, faulted>>

\* a send request arrives while the store holds fewer than MaxMsgs rows
SendRequest(p, path, c, u, b) ==
  /\ Len(messages) + Cardinality({q \in Senders :
                                    send[q].pc \in {"check", "insert"}}) < MaxMsgs
  /\ SendArrives(p, path, c, u, b)

\* the registered live sockets of user u that have conversation c in
\* joinedConversations: "none" of them, "all" of them, or "some"
JoinedBy(u, c) ==
  LET mine == {s \in 1..NumSockets : /\ sock[s].st = "live"
                                     /\ sock[s].registered
                                     /\ sock[s].user = u}
      in == {s \in mine : SeqContains(sock[s].joined, c)}
  IN IF in = {} THEN "none" ELSE IF in = mine THEN "all" ELSE "some"

\* const member = await isMember(conversationId, senderUserId)
SendCheck(p) ==
  /\ send[p].pc = "check"
  /\ send' = [send EXCEPT ![p] =
       IF isMember(send[p].conv, send[p].user)
         THEN [@ EXCEPT !.pc = "insert",
                        !.joinedBy = JoinedBy(send[p].user, send[p].conv)]
         ELSE [@ EXCEPT !.pc = "done", !.result = "forbidden",
                        !.joinedBy = JoinedBy(send[p].user, send[p].conv)]]
  /\ UNCHANGED <<classSvc, storeVars, msgCacheVars, presenceVars, outVars, dm, syncVars,
                 lastAcked, sock, histVars>>

\* created_at DEFAULT NOW(): later than every row of a send that had
\* returned; it may equal the newest row's when that row's send is still
\* in flight
MayTie(p) ==
  \E q \in Senders :
    /\ q # p
    /\ SendInFlight(q)
    /\ send[q].msg # 0
    /\ messages[send[q].msg].created_at = dbClock

FailedInsertOutcome_Swallowed(h) == [h EXCEPT !.pc = "done", !.result = "ok"]

\* pool.query rejects: persistAndFanoutMessage throws, the route replies
\* 500 and message:send acks ok=false "failed to send message"
FailedInsertOutcome(h) == [h EXCEPT !.pc = "done", !.result = "error"]

\* persistAndFanoutMessage: INSERT INTO messages ... RETURNING, or the
\* insert fails and the function throws
SendInsert(p, stored, adv) ==
  /\ send[p].pc = "insert"
  /\ adv \in {0, 1}
  /\ adv = 0 => MayTie(p)
  /\ IF stored
       THEN /\ messages' = Append(messages,
                 [id |-> Len(messages) + 1, conversation_id |-> send[p].conv,
                  sender_user_id |-> send[p].user, body |-> send[p].body,
                  created_at |-> dbClock + adv])
            /\ dbClock' = dbClock + adv
            /\ send' = [send EXCEPT ![p].pc = "cache", ![p].msg = Len(messages) + 1]
       ELSE /\ UNCHANGED <<classSvc, messages, dbClock>>
            /\ adv = 1
            /\ send' = [send EXCEPT ![p] = FailedInsertOutcome(@)]
  /\ UNCHANGED <<classSvc, conversations, members, nextConvId, msgCacheVars, presenceVars,
                 outVars, dm, syncVars, lastAcked, sock, histVars>>

\* lpush, ltrim, expire inside the try block: `failAt` is the command that
\* throws ("none" when all three succeed)
CacheAfterPush(list, row, failAt) ==
  IF failAt = "lpush" THEN list
  ELSE IF failAt = "ltrim" THEN lpush(list, JsonStringify(row))
  ELSE ltrim(lpush(list, JsonStringify(row)), CacheTrimEnd)

SendCache(p, failAt) ==
  /\ send[p].pc = "cache"
  /\ cache' = [cache EXCEPT ![send[p].conv] =
                 CacheAfterPush(@, messages[send[p].msg], failAt)]
  /\ send' = [send EXCEPT ![p].pc = IF failAt = "none" THEN "unread" ELSE "publish",
                          ![p].cacheOk = (failAt = "none")]
  /\ UNCHANGED <<classSvc, storeVars, unread, presenceVars, outVars, dm, syncVars,
                 lastAcked, sock, histVars>>

UnreadTargets_WithSender(c, sender) == getConversationMemberIds(c)

\* the users whose unread counter a send by `sender` increments
UnreadTargets(c, sender) == getConversationMemberIds(c) \ {sender}

\* getConversationMemberIds, then hincrby(unread:<user>, conversation, 1)
\* for every member but the sender; the first k increments succeed and
\* command k+1 throws (k = all of them: no failure)
SendUnread(p, k) ==
  /\ send[p].pc = "unread"
  /\ LET targets == SortedSeq(UnreadTargets(send[p].conv, send[p].user))
         done == {targets[i] : i \in 1..Min(k, Len(targets))}
     IN /\ k \in 0..Len(targets)
        /\ unread' = [u \in Users |->
                        IF u \in done
                          THEN [unread[u] EXCEPT ![send[p].conv] = @ + 1]
                          ELSE unread[u]]
        /\ send' = [send EXCEPT ![p].pc = "publish",
                                ![p].cacheOk = (k = Len(targets))]
  /\ UNCHANGED <<classSvc, storeVars, cache, presenceVars, outVars, dm, syncVars,
                 lastAcked, sock, histVars>>

publishThrows_Uncaught(sent) == ~sent

\* publish(): TRUE when a failed producer.send escapes to the caller.
\* publish wraps producer.send in try/catch and only logs.
publishThrows(sent) == FALSE

\* await publish("chat.message.sent", ...)
SendPublish(p, sent) ==
  /\ send[p].pc = "publish"
  /\ send' = [send EXCEPT ![p] =
       IF publishThrows(sent)
         THEN [@ EXCEPT !.pc = "done", !.published = sent, !.result = "error"]
         ELSE [@ EXCEPT !.pc = "emit", !.published = sent]]
  /\ UNCHANGED <<classSvc, storeVars, msgCacheVars, presenceVars, outVars, dm, syncVars,
                 lastAcked, sock, histVars>>

\* io.to(room).emit("message:new") in its own try/catch, return message;
\* the route replies 201, message:send acks ok=true
SendFanout(p, emitted) ==
  /\ send[p].pc = "emit"
  /\ send' = [send EXCEPT ![p].pc = "done", ![p].emitted = emitted,
                          ![p].result = "ok"]
  /\ lastAcked' = [lastAcked EXCEPT ![send[p].conv] = send[p].msg]
  /\ UNCHANGED <<classSvc, storeVars, msgCacheVars, presenceVars, outVars, dm, syncVars, sock, histVars>>

\* the reply has been delivered; the handler is gone
SendReturn(p) ==
  /\ send[p].pc = "done"
  /\ send' = [send EXCEPT ![p] = SendIdle]
  /\ UNCHANGED <<classSvc, storeVars, msgCacheVars, presenceVars, outVars, dm, syncVars,
                 lastAcked, sock, histVars>>

\* the message whose successful send is the last request served for
\* conversation c: the newest row, acknowledged, no list served since, no
\* send in flight and no two sends ever overlapping (0 when there is none)
JustSent(c) ==
  IF /\ lastAcked[c] # 0
     /\ ~overlapped
     /\ \A q \in Senders : ~SendInFlight(q)
     /\ \A i \in MsgIds(c) : i <= lastAcked[c]
    THEN lastAcked[c] ELSE 0

\* the cache list after the durable read has been pushed back:
\* for (const msg of [...messages].reverse()) lpush; ltrim 0 199
Repopulated(list, rowsDesc) ==
  IF rowsDesc = <<>> THEN list
  ELSE ltrim(LpushAll(list, rowsDesc), CacheTrimEnd)

\* GET /conversations/:conversationId/messages: every reply the route may
\* give in the current state, each with the cache list it leaves behind
\* (`list` is the cached list of the conversation when the request arrives)
ListRepliesOn(u, c, raw, list) ==
  IF ~isMember(c, u)
    THEN {[status |-> 403, source |-> "none", messages |-> <<>>, cache |-> list]}
    ELSE LET limit == ClampLimit(raw)
             cached == lrange(list, limit - 1)
         IN IF Len(cached) > 0
              THEN {[status |-> 200, source |-> "redis",
                     messages |-> Reverse(ParseAll(cached)), cache |-> list]}
              ELSE {[status |-> 200, source |-> "postgres",
                     messages |-> Reverse(rowsDesc),
                     cache |-> Repopulated(list, rowsDesc)] :
                      rowsDesc \in SelectRecent(c, limit)}

ListReplies(u, c, raw) == ListRepliesOn(u, c, raw, cache[c])

ListMessages(u, c, raw) ==
  /\ \E r \in ListReplies(u, c, raw) :
       /\ cache' = [cache EXCEPT ![c] = r.cache]
       /\ lastAcked' = IF r.status = 200 THEN [lastAcked EXCEPT ![c] = 0]
                                         ELSE lastAcked
  /\ UNCHANGED <<classSvc, storeVars, unread, presenceVars, outVars, dm, syncVars, send, sock, histVars>>

hdel_Decrement(hash, field) == [hash EXCEPT ![field] = Max(0, @ - 1)]

\* redis.hdel(key, field) on a hash of counters: the field is gone, which
\* reads as 0
hdel(hash, field) == [hash EXCEPT ![field] = 0]

\* GET /conversations: unreadCount = Math.max(0, Number(unreadRaw[id] || 0))
unreadCount(u, c) == Max(0, unread[u][c])

MarkReadReply_NoCheck(u, c) ==
  [status |-> 200, unread |-> [unread EXCEPT ![u] = hdel(@, c)]]

\* POST /conversations/:conversationId/read: the reply and the unread
\* hashes it leaves: 403 for a non-member, else hdel(unread:<user>, conversation)
MarkReadReply(u, c) ==
  IF ~isMember(c, u)
    THEN [status |-> 403, unread |-> unread]
    ELSE [status |-> 200, unread |-> [unread EXCEPT ![u] = hdel(@, c)]]

MarkRead(u, c) ==
  /\ unread' = MarkReadReply(u, c).unread
  /\ UNCHANGED <<classSvc, storeVars, cache, presenceVars, outVars, dm, syncVars, msgProcVars, sock, histVars>>

\* the six-hour expiry of a cached message list
CacheExpire(c) ==
  /\ cache[c] # <<>>
  /\ cache' = [cache EXCEPT ![c] = <<>>]
  /\ UNCHANGED <<classSvc, storeVars, unread, presenceVars, outVars, dm, syncVars, msgProcVars, sock, histVars>>

NextMsg ==
  \/ \E p \in 1..NumSenders, path \in {"http", "ws"}, c \in ConvIds,
        u \in Users, b \in Bodies : SendRequest(p, path, c, u, b)
  \/ \E p \in 1..NumSenders : SendCheck(p)
  \/ \E p \in 1..NumSenders, stored \in BOOLEAN, adv \in {0, 1} : SendInsert(p, stored, adv)
  \/ \E p \in 1..NumSenders, f \in {"none", "lpush", "ltrim", "expire"} : SendCache(p, f)
  \/ \E p \in 1..NumSenders, k \in 0..Cardinality(Users) : SendUnread(p, k)
  \/ \E p \in 1..NumSenders, sent \in BOOLEAN : SendPublish(p, sent)
  \/ \E p \in 1..NumSenders, emitted \in BOOLEAN : SendFanout(p, emitted)
  \/ \E p \in 1..NumSenders : SendReturn(p)
  \/ \E u \in Users, c \in ConvIds, raw \in ListLimits : ListMessages(u, c, raw)
  \/ \E u \in Users, c \in ConvIds : MarkRead(u, c)
  \/ \E c \in ConvIds : CacheExpire(c)

SpecMsg == InitMsg /\ [][NextMsg]_vars

\* ------------------------------------------------------------ C2 .. C6
NonDecreasing(rows) ==
  \A i \in 1..Len(rows) : \A j \in 1..Len(rows) :
    i < j => rows[i].created_at <= rows[j].created_at

\* C2: for every conversation and every limit, the messages a listMessages
\* reply carries are in non-decreasing created_at order (oldest first),
\* from the cache and from the store alike, after any sends, lists and
\* cache expiries.
C2_ListAscending ==
  \A u \in Users, c \in ConvIds, raw \in ListLimits :
    \A r \in ListReplies(u, c, raw) :
      r.status = 200 => NonDecreasing(r.messages)

\* C3: after a send has returned success, the next listMessages of the
\* conversation by a member returns that message as its last (newest)
\* element, whether or not the cache commands of the send succeeded.
C3_SentIsNewestListed ==
  \A c \in ConvIds :
    JustSent(c) # 0 =>
      \A u \in Users, raw \in ListLimits :
        <<c, u>> \in members =>
          \A r \in ListReplies(u, c, raw) :
            /\ r.status = 200
            /\ r.messages # <<>>
            /\ r.messages[Len(r.messages)].id = JustSent(c)

CachedRows(c) == {JsonParse(cache[c][i]) : i \in 1..Len(cache[c])}

C5_SendSucceedsOnceInserted ==
  \A p \in 1..NumSenders :
    (send[p].pc = "done" /\ send[p].msg # 0) =>
      /\ send[p].result = "ok"
      /\ send[p].msg \in 1..Len(messages)
      /\ messages[send[p].msg].conversation_id = send[p].conv
      /\ messages[send[p].msg].sender_user_id = send[p].user
      /\ messages[send[p].msg].body = send[p].body

C5_Witness ==
  \E p \in 1..NumSenders :
    /\ send[p].pc = "done"
    /\ send[p].msg # 0
    /\ ~send[p].cacheOk
    /\ ~send[p].published
    /\ ~send[p].emitted
    /\ send[p].result = "ok"

\* C6: a send whose cache commands all succeed raises the unread counter
\* of (U, C) by exactly 1 for every member U of C other than the sender and
\* leaves the sender's counter, the counters of users who are not members
\* and the counters of other conversations as they were; no other step of
\* the send touches a counter.
C6_UnreadPlusOne ==
  [][\A p \in 1..NumSenders :
       /\ (send[p].pc = "unread" /\ send'[p].pc = "publish" /\ send'[p].cacheOk) =>
            \A u \in Users, c \in ConvIds :
              unread'[u][c] = unread[u][c] +
                (IF c = send[p].conv /\ <<c, u>> \in members /\ u # send[p].user
                   THEN 1 ELSE 0)
       /\ (send'[p] # send[p] /\ send[p].pc # "unread") => unread' = unread]_vars

C6_Witness ==
  \E p \in 1..NumSenders :
    /\ send[p].pc = "done"
    /\ send[p].result = "ok"
    /\ send[p].cacheOk
    /\ \E u \in Users : u # send[p].user /\ unread[u][send[p].conv] = 2
    /\ unread[send[p].user][send[p].conv] = 0

\* ============================================================ SpecPres
\* conversations the sockets join and leave
JoinConvs == {BaseConv}

\* the user a socket's token names: the first two sockets belong to user 1
SocketUser(s) == IF s <= 2 THEN 1 ELSE 2

ConnInFlight(s) == sock[s].conn \in {"incr", "sadd"}
OpInFlight(s) == sock[s].op.kind # "none"
DiscInFlight(s) == sock[s].disc \notin {"none", "done"}
HandlerInFlight(s) == ConnInFlight(s) \/ OpInFlight(s) \/ DiscInFlight(s)
AnyInFlight == \E s \in 1..NumSockets : HandlerInFlight(s)
Quiescent == ~AnyInFlight

\* Set.prototype.add / delete on the insertion-ordered joinedConversations
SetAdd(seq, x) == IF SeqContains(seq, x) THEN seq ELSE Append(seq, x)
SetDelete(seq, x) == SelectSeq(seq, LAMBDA y : y # x)

\* the store of SpecPres: the DM conversation between users 1 and 2
InitPres == InitMsg

JoinBroadcasts_Every(count) == count >= 1

\* joinConversationPresence: if (count === 1) sadd and broadcast
JoinBroadcasts(count) == count = 1

\* leaveConversationPresence / markUserOffline: if (count <= 0) clean up
LastOneLeft(count) == count <= 0

\* io.use + io.on("connection"): the token is verified, socket.data is
\* set, and markUserOnline issues INCR on the user's socket counter
ConnectWith(s, valid, cred) ==
  /\ sock[s].st = "none"
  /\ IF ~valid
       THEN /\ sock' = [sock EXCEPT ![s].st = "rejected", ![s].cred = cred]
            /\ UNCHANGED <<classSvc, userSocketCount, overlapped>>
       ELSE LET u == SocketUser(s)
                n == userSocketCount[u] + 1
            IN /\ userSocketCount' = [userSocketCount EXCEPT ![u] = n]
               /\ sock' = [sock EXCEPT ![s].st = "live", ![s].user = u,
                                       ![s].cred = cred,
                                       ![s].conn = "incr", ![s].connCount = n]
               /\ overlapped' = (overlapped \/ AnyInFlight)
  /\ UNCHANGED <<classSvc, storeVars, msgCacheVars, onlineUsers, convPresenceSet,
                 convPresenceCount, outVars, dm, syncVars, msgProcVars, misuse, faulted>>

\* a handshake whose token verifies (valid) or does not
Connect(s, valid) ==
  ConnectWith(s, valid, IF valid THEN <<"good", "ok">> ELSE <<"bad", "ok">>)

\* markUserOnline after INCR: SADD when the count is 1; otherwise the
\* connection handler goes on to register the socket's listeners
ConnAfterIncr(s) ==
  /\ sock[s].conn = "incr"
  /\ IF sock[s].connCount = 1
       THEN /\ onlineUsers' = onlineUsers \cup {sock[s].user}
            /\ sock' = [sock EXCEPT ![s].conn = "sadd"]
       ELSE /\ UNCHANGED onlineUsers
            /\ sock' = [sock EXCEPT ![s].conn = "done", ![s].connCount = 0,
                                       ![s].registered = TRUE]
  /\ UNCHANGED <<classSvc, storeVars, msgCacheVars, userSocketCount, convPresenceSet,
                 convPresenceCount, outVars, dm, syncVars, msgProcVars, histVars>>

\* markUserOnline after SADD: user:presence is broadcast, then
\* session:ready is sent and the listeners are registered
ConnAfterSadd(s) ==
  /\ sock[s].conn = "sadd"
  /\ sock' = [sock EXCEPT ![s].conn = "done", ![s].connCount = 0,
                                       ![s].registered = TRUE]
  /\ UNCHANGED <<classSvc, storeVars, msgCacheVars, presenceVars, outVars, dm, syncVars, msgProcVars, histVars>>

\* conversation:join arrives at a registered listener: isMember is queried
JoinEvent(s, c) ==
  /\ sock[s].st = "live"
  /\ sock[s].registered
  /\ ~OpInFlight(s)
  /\ sock[s].ops < MaxOps
  /\ sock' = [sock EXCEPT ![s].op = [NoOp EXCEPT !.kind = "join", !.conv = c,
                                                 !.pc = "member",
                                                 !.hadJoined = SeqContains(sock[s].joined, c),
                                                 !.hadRoom = c \in sock[s].rooms],
                          ![s].ops = @ + 1,
                          ![s].everJoined = @ \cup {c}]
  /\ misuse' = (misuse \/ c \in sock[s].everJoined)
  /\ overlapped' = (overlapped \/ AnyInFlight)
  /\ UNCHANGED <<classSvc, storeVars, msgCacheVars, presenceVars, outVars, dm, syncVars, msgProcVars, faulted>>

\* conversation:join after isMember: a non-member is refused; a member's
\* socket joins the room, the conversation enters joinedConversations and
\* joinConversationPresence issues HINCRBY +1
JoinAfterMember(s) ==
  /\ sock[s].op.kind = "join"
  /\ sock[s].op.pc = "member"
  /\ LET c == sock[s].op.conv
         u == sock[s].user
         n == convPresenceCount[c][u] + 1
     IN IF ~isMember(c, u)
          THEN /\ sock' = [sock EXCEPT ![s].op = NoOp,
                                       ![s].lastAck = "error"]
               /\ UNCHANGED convPresenceCount
          ELSE /\ convPresenceCount' = [convPresenceCount EXCEPT ![c][u] = n]
               /\ sock' = [sock EXCEPT
                    ![s].rooms = IF sock[s].st = "live" THEN @ \cup {c} ELSE @,
                    ![s].joined = SetAdd(@, c),
                    ![s].op = [@ EXCEPT !.pc = "incr", !.count = n]]
  /\ UNCHANGED <<classSvc, storeVars, msgCacheVars, onlineUsers, userSocketCount,
                 convPresenceSet, outVars, dm, syncVars, msgProcVars, histVars>>

\* joinConversationPresence after HINCRBY: SADD when the count is 1;
\* otherwise getConversationPresence issues SMEMBERS
JoinAfterIncr(s) ==
  /\ sock[s].op.kind = "join"
  /\ sock[s].op.pc = "incr"
  /\ LET c == sock[s].op.conv
         u == sock[s].user
     IN IF JoinBroadcasts(sock[s].op.count)
          THEN /\ convPresenceSet' = [convPresenceSet EXCEPT ![c] = @ \cup {u}]
               /\ sock' = [sock EXCEPT ![s].op.pc = "sadd"]
          ELSE /\ UNCHANGED convPresenceSet
               /\ sock' = [sock EXCEPT ![s].op.pc = "smembers",
                                       ![s].op.online = convPresenceSet[c]]
  /\ UNCHANGED <<classSvc, storeVars, msgCacheVars, onlineUsers, userSocketCount,
                 convPresenceCount, outVars, dm, syncVars, msgProcVars, histVars>>

\* joinConversationPresence after SADD: presence:update isOnline=true is
\* broadcast to the room, then getConversationPresence issues SMEMBERS
JoinAfterSadd(s) ==
  /\ sock[s].op.kind = "join"
  /\ sock[s].op.pc = "sadd"
  /\ LET c == sock[s].op.conv
         u == sock[s].user
     IN /\ onlineEmits' = [onlineEmits EXCEPT ![c][u] = @ + 1]
        /\ sock' = [sock EXCEPT ![s].op.pc = "smembers",
                                ![s].op.online = convPresenceSet[c]]
  /\ UNCHANGED <<classSvc, storeVars, msgCacheVars, presenceVars, offlineEmits, deletedEmits, dm, syncVars,
                 msgProcVars, histVars>>

\* conversation:join after SMEMBERS: ack { ok: true, onlineUserIds }, the
\* list being the SMEMBERS reply held in op.online
JoinAck(s) ==
  /\ sock[s].op.kind = "join"
  /\ sock[s].op.pc = "smembers"
  /\ sock' = [sock EXCEPT ![s].op = NoOp,
                          ![s].lastAck = "ok"]
  /\ UNCHANGED <<classSvc, storeVars, msgCacheVars, presenceVars, outVars, dm, syncVars, msgProcVars, histVars>>

\* conversation:leave arrives: the socket leaves the room, the conversation
\* leaves joinedConversations, leaveConversationPresence issues HINCRBY -1
LeaveEvent(s, c) ==
  /\ sock[s].st = "live"
  /\ sock[s].registered
  /\ ~OpInFlight(s)
  /\ sock[s].ops < MaxOps
  /\ LET u == sock[s].user
         n == convPresenceCount[c][u] - 1
     IN /\ convPresenceCount' = [convPresenceCount EXCEPT ![c][u] = n]
        /\ sock' = [sock EXCEPT ![s].rooms = @ \ {c},
                                ![s].joined = SetDelete(@, c),
                                ![s].ops = @ + 1,
                                ![s].op = [NoOp EXCEPT !.kind = "leave", !.conv = c,
                                                       !.pc = "decr", !.count = n]]
  /\ misuse' = (misuse \/ ~SeqContains(sock[s].joined, c))
  /\ overlapped' = (overlapped \/ AnyInFlight)
  /\ UNCHANGED <<classSvc, storeVars, msgCacheVars, onlineUsers, userSocketCount,
                 convPresenceSet, outVars, dm, syncVars, msgProcVars, faulted>>

\* leaveConversationPresence after HINCRBY: HDEL when the count is <= 0;
\* otherwise ack { ok: true }
LeaveAfterDecr(s) ==
  /\ sock[s].op.kind = "leave"
  /\ sock[s].op.pc = "decr"
  /\ LET c == sock[s].op.conv
         u == sock[s].user
     IN IF LastOneLeft(sock[s].op.count)
          THEN /\ convPresenceCount' = [convPresenceCount EXCEPT ![c][u] = 0]
               /\ sock' = [sock EXCEPT ![s].op.pc = "hdel"]
          ELSE /\ UNCHANGED convPresenceCount
               /\ sock' = [sock EXCEPT ![s].op = NoOp,
                                       ![s].lastAck = "ok"]
  /\ UNCHANGED <<classSvc, storeVars, msgCacheVars, onlineUsers, userSocketCount,
                 convPresenceSet, outVars, dm, syncVars, msgProcVars, histVars>>

\* leaveConversationPresence after HDEL: SREM
LeaveAfterHdel(s) ==
  /\ sock[s].op.kind = "leave"
  /\ sock[s].op.pc = "hdel"
  /\ convPresenceSet' = [convPresenceSet EXCEPT ![sock[s].op.conv] = @ \ {sock[s].user}]
  /\ sock' = [sock EXCEPT ![s].op.pc = "srem"]
  /\ UNCHANGED <<classSvc, storeVars, msgCacheVars, onlineUsers, userSocketCount,
                 convPresenceCount, outVars, dm, syncVars, msgProcVars, histVars>>

\* leaveConversationPresence after SREM: presence:update isOnline=false is
\* broadcast, then ack { ok: true }
LeaveAck(s) ==
  /\ sock[s].op.kind = "leave"
  /\ sock[s].op.pc = "srem"
  /\ offlineEmits' = [offlineEmits EXCEPT ![sock[s].op.conv][sock[s].user] = @ + 1]
  /\ sock' = [sock EXCEPT ![s].op = NoOp,
                          ![s].lastAck = "ok"]
  /\ UNCHANGED <<classSvc, storeVars, msgCacheVars, presenceVars, onlineEmits, deletedEmits, dm, syncVars,
                 msgProcVars, histVars>>

\* the disconnect handler issues its next command: HINCRBY -1 for the next
\* conversation of its snapshot (the command may fail: the handler catches
\* and goes on), or, the snapshot exhausted, markUserOffline's DECR.
\* `base` is the socket as updated so far by the step.
DiscIssue(s, base, rest, fail) ==
  LET u == base.user
  IN IF rest # <<>>
       THEN LET c == Head(rest)
                n == convPresenceCount[c][u] - 1
            IN /\ convPresenceCount' =
                    IF fail THEN convPresenceCount
                    ELSE [convPresenceCount EXCEPT ![c][u] = n]
               /\ sock' = [sock EXCEPT ![s] =
                    [base EXCEPT !.disc = "decr", !.todo = rest,
                                 !.discCount = IF fail THEN 0 ELSE n,
                                 !.discErr = fail]]
               /\ faulted' = (faulted \/ fail)
               /\ UNCHANGED userSocketCount
       ELSE LET n == userSocketCount[u] - 1
            IN /\ ~fail
               /\ userSocketCount' = [userSocketCount EXCEPT ![u] = n]
               /\ sock' = [sock EXCEPT ![s] =
                    [base EXCEPT !.disc = "gdecr", !.todo = <<>>,
                                 !.discCount = n, !.discErr = FALSE]]
               /\ UNCHANGED <<classSvc, convPresenceCount, faulted>>

\* the transport closes: the socket leaves its rooms and "disconnect" is
\* emitted.  The listener exists only once the connection handler has
\* registered it; it snapshots joinedConversations and starts cleaning up.
Disconnect(s, fail) ==
  /\ sock[s].st = "live"
  /\ LET base == [sock[s] EXCEPT !.st = "closed", !.rooms = {}]
     IN IF sock[s].registered
          THEN DiscIssue(s, base, sock[s].joined, fail)
          ELSE /\ ~fail
               /\ sock' = [sock EXCEPT ![s] = base]
               /\ UNCHANGED <<classSvc, convPresenceCount, userSocketCount, faulted>>
  /\ overlapped' = (overlapped \/ AnyInFlight)
  /\ UNCHANGED <<classSvc, storeVars, msgCacheVars, onlineUsers, convPresenceSet, outVars,
                 dm, syncVars, msgProcVars, misuse>>

\* disconnect, after HINCRBY of leaveConversationPresence: HDEL when the
\* count is <= 0; on a positive count or a caught error the loop goes on
DiscAfterDecr(s, fail) ==
  /\ sock[s].disc = "decr"
  /\ IF ~sock[s].discErr /\ LastOneLeft(sock[s].discCount)
       THEN /\ ~fail
            /\ convPresenceCount' =
                 [convPresenceCount EXCEPT ![Head(sock[s].todo)][sock[s].user] = 0]
            /\ sock' = [sock EXCEPT ![s].disc = "hdel"]
            /\ UNCHANGED <<classSvc, userSocketCount, faulted>>
       ELSE DiscIssue(s, sock[s], Tail(sock[s].todo), fail)
  /\ UNCHANGED <<classSvc, storeVars, msgCacheVars, onlineUsers, convPresenceSet, outVars,
                 dm, syncVars, msgProcVars, overlapped, misuse>>

\* disconnect, after HDEL: SREM
DiscAfterHdel(s) ==
  /\ sock[s].disc = "hdel"
  /\ convPresenceSet' = [convPresenceSet EXCEPT ![Head(sock[s].todo)] = @ \ {sock[s].user}]
  /\ sock' = [sock EXCEPT ![s].disc = "srem"]
  /\ UNCHANGED <<classSvc, storeVars, msgCacheVars, onlineUsers, userSocketCount,
                 convPresenceCount, outVars, dm, syncVars, msgProcVars, histVars>>

\* disconnect, after SREM: presence:update isOnline=false is broadcast and
\* the loop goes on
DiscAfterSrem(s, fail) ==
  /\ sock[s].disc = "srem"
  /\ offlineEmits' = [offlineEmits EXCEPT ![Head(sock[s].todo)][sock[s].user] = @ + 1]
  /\ DiscIssue(s, sock[s], Tail(sock[s].todo), fail)
  /\ UNCHANGED <<classSvc, storeVars, msgCacheVars, onlineUsers, convPresenceSet, onlineEmits, deletedEmits,
                 dm, syncVars, msgProcVars, overlapped, misuse>>

\* markUserOffline after DECR: DEL of the counter when the count is <= 0
DiscAfterGdecr(s) ==
  /\ sock[s].disc = "gdecr"
  /\ IF LastOneLeft(sock[s].discCount)
       THEN /\ userSocketCount' = [userSocketCount EXCEPT ![sock[s].user] = 0]
            /\ sock' = [sock EXCEPT ![s].disc = "gdel"]
       ELSE /\ UNCHANGED userSocketCount
            /\ sock' = [sock EXCEPT ![s].disc = "done", ![s].discCount = 0]
  /\ UNCHANGED <<classSvc, storeVars, msgCacheVars, onlineUsers, convPresenceSet,
                 convPresenceCount, outVars, dm, syncVars, msgProcVars, histVars>>

\* markUserOffline after DEL: SREM from presence:online-users
DiscAfterGdel(s) ==
  /\ sock[s].disc = "gdel"
  /\ onlineUsers' = onlineUsers \ {sock[s].user}
  /\ sock' = [sock EXCEPT ![s].disc = "gsrem"]
  /\ UNCHANGED <<classSvc, storeVars, msgCacheVars, userSocketCount, convPresenceSet,
                 convPresenceCount, outVars, dm, syncVars, msgProcVars, histVars>>

\* markUserOffline after SREM: user:presence isOnline=false is broadcast
DiscAfterGsrem(s) ==
  /\ sock[s].disc = "gsrem"
  /\ sock' = [sock EXCEPT ![s].disc = "done", ![s].discCount = 0]
  /\ UNCHANGED <<classSvc, storeVars, msgCacheVars, presenceVars, outVars, dm, syncVars, msgProcVars, histVars>>

NextPres ==
  \/ \E s \in 1..NumSockets, valid \in BOOLEAN : Connect(s, valid)
  \/ \E s \in 1..NumSockets : ConnAfterIncr(s)
  \/ \E s \in 1..NumSockets : ConnAfterSadd(s)
  \/ \E s \in 1..NumSockets, c \in JoinConvs : JoinEvent(s, c)
  \/ \E s \in 1..NumSockets : JoinAfterMember(s)
  \/ \E s \in 1..NumSockets : JoinAfterIncr(s)
  \/ \E s \in 1..NumSockets : JoinAfterSadd(s)
  \/ \E s \in 1..NumSockets : JoinAck(s)
  \/ \E s \in 1..NumSockets, c \in JoinConvs : LeaveEvent(s, c)
  \/ \E s \in 1..NumSockets : LeaveAfterDecr(s)
  \/ \E s \in 1..NumSockets : LeaveAfterHdel(s)
  \/ \E s \in 1..NumSockets : LeaveAck(s)
  \/ \E s \in 1..NumSockets, fail \in BOOLEAN : Disconnect(s, fail)
  \/ \E s \in 1..NumSockets, fail \in BOOLEAN : DiscAfterDecr(s, fail)
  \/ \E s \in 1..NumSockets : DiscAfterHdel(s)
  \/ \E s \in 1..NumSockets, fail \in BOOLEAN : DiscAfterSrem(s, fail)
  \/ \E s \in 1..NumSockets : DiscAfterGdecr(s)
  \/ \E s \in 1..NumSockets : DiscAfterGdel(s)
  \/ \E s \in 1..NumSockets : DiscAfterGsrem(s)

SpecPres == InitPres /\ [][NextPres]_vars

\* ----------------------------------------------------------- C7 .. C10
LiveSockets(u) == {s \in 1..NumSockets : sock[s].st = "live" /\ sock[s].user = u}

LiveJoined(c, u) == {s \in LiveSockets(u) : SeqContains(sock[s].joined, c)}

\* C7: when the handlers of a user's connections run one after the other,
\* each connection joining a conversation at most once, presence:update
\* isOnline=true for (C, A) is broadcast once when the first connection
\* joins and not again when a second one joins, and isOnline=false is
\* broadcast only once the last joined connection has left C or
\* disconnected: between handlers, the broadcasts of true exceed those of
\* false by one exactly while some live connection of A has joined C.
C7_PresenceBroadcastOnce ==
  (Quiescent /\ ~overlapped /\ ~misuse /\ ~faulted) =>
    \A c \in ConvIds, u \in Users :
      onlineEmits[c][u] - offlineEmits[c][u] =
        (IF LiveJoined(c, u) # {} THEN 1 ELSE 0)

C7_Witness ==
  /\ Quiescent /\ ~overlapped /\ ~misuse /\ ~faulted
  /\ \E s1 \in 1..NumSockets, s2 \in 1..NumSockets :
       /\ s1 # s2
       /\ sock[s1].user = sock[s2].user
       /\ sock[s1].st = "closed" /\ sock[s1].disc = "done"
       /\ SeqContains(sock[s1].joined, BaseConv)
       /\ sock[s2].st = "live"
       /\ SeqContains(sock[s2].joined, BaseConv)
       /\ onlineEmits[BaseConv][sock[s2].user] = 1
       /\ offlineEmits[BaseConv][sock[s2].user] = 0

\* every closed socket closed after its listeners were registered, so its
\* disconnect handler ran
ClosedSocketsCleaned ==
  \A s \in 1..NumSockets : sock[s].st = "closed" => sock[s].disc = "done"

\* C8: whenever no connect or disconnect handler is in flight (and every
\* closed connection has run its disconnect handler), a user is in
\* presence:online-users exactly if the user has a live authenticated
\* connection, and the user's socket counter is the number of them.
C8_GlobalPresenceMatchesConnections ==
  (Quiescent /\ ClosedSocketsCleaned) =>
    \A u \in Users :
      /\ u \in onlineUsers <=> LiveSockets(u) # {}
      /\ userSocketCount[u] = Cardinality(LiveSockets(u))

\* C9: with every connection joining C at most once and leaving only after
\* joining, whenever no handler is in flight user U is in C's online set
\* exactly if a live connection of U has C in its joined set, and the
\* online list a successful join acknowledges contains U.
C9_ConversationPresenceMatchesJoins ==
  (~misuse /\ ~faulted /\ \A s \in 1..NumSockets : sock[s].st # "closed") =>
    /\ Quiescent =>
         \A c \in ConvIds, u \in Users :
           u \in convPresenceSet[c] <=> LiveJoined(c, u) # {}
    /\ \A s \in 1..NumSockets :
         (sock[s].op.kind = "join" /\ sock[s].op.pc = "smembers")
           => sock[s].user \in sock[s].op.online

\* C10: once the disconnect handlers of a user's closed connections and
\* every other handler of those connections have finished, and the user
\* has no live connection, the user is in no online set and every presence
\* counter of the user is zero - also when a join was in flight at the
\* disconnect and when a cleanup command failed.
C10_DisconnectLeavesNoPresence ==
  \A u \in Users :
    ( /\ ~misuse
      /\ \E s \in 1..NumSockets : sock[s].user = u /\ sock[s].st = "closed"
      /\ \A s \in 1..NumSockets :
           sock[s].user = u =>
             /\ sock[s].st = "closed"
             /\ sock[s].disc = "done"
             /\ ~HandlerInFlight(s) )
    => /\ u \notin onlineUsers
       /\ userSocketCount[u] = 0
       /\ \A c \in ConvIds :
            u \notin convPresenceSet[c] /\ convPresenceCount[c][u] = 0

\* ============================================================ SpecSync
\* body.groupId of a sync request: absent, not a UUID, a UUID
GroupIds == {"", "x", "g1"}
\* body.classId: absent, or a class reference
ClassIds == {Null, "cA"}
\* body.memberUserIds: empty (the group is disbanded), and lists that add
\* members, remove members and repeat a user
MemberLists == {<<>>, <<1, 2, 1>>, <<2, 3>>}
\* the sockets that connect and join in SpecSync
SyncSockets == {1}

\* looksLikeUuid(value) on the three group ids
looksLikeUuid(g) == g = "g1"

RECURSIVE uniqueUserIds(_)
\* uniqueUserIds(values): the first occurrence of every user id, in order
uniqueUserIds(values) ==
  IF values = <<>> THEN <<>>
  ELSE LET rest == uniqueUserIds(SubSeq(values, 1, Len(values) - 1))
           last == values[Len(values)]
       IN IF SeqContains(rest, last) THEN rest ELSE Append(rest, last)

ToSet(seq) == {seq[i] : i \in 1..Len(seq)}

GroupRow(id, cls, g) == [id |-> id, type |-> "GROUP", class_id |-> cls, group_id |-> g]

\* SELECT ... FROM conversations WHERE type = 'GROUP' AND group_id = $1
ExistingGroupRows(g, convs) == {c \in convs : c.type = "GROUP" /\ c.group_id = g}

getGroupConversationForUser_AnyUser(g, u, convs, mem) == ExistingGroupRows(g, convs)

\* getGroupConversationForUser(groupId, userId): the rows the query matches
\* (the route replies 404 when there is none)
getGroupConversationForUser(g, u, convs, mem) ==
  {c \in ExistingGroupRows(g, convs) : <<c.id, u>> \in mem}

SyncInFlight(p) == sync[p].pc \notin {"idle", "done"}

\* the transaction of p holds the row lock of conversation c (FOR UPDATE)
HoldsRowLock(p, c) ==
  /\ sync[p].pc \in {"delete", "upsert", "members", "commit"}
  /\ sync[p].found
  /\ sync[p].conv = c

RowLocked(c) == \E p \in 1..NumSyncs : HoldsRowLock(p, c)

\* the transactions that inserted a GROUP row for g and have not ended
UncommittedInsert(g) ==
  {p \in 1..NumSyncs : /\ sync[p].pc \in {"members", "commit"}
                       /\ sync[p].created
                       /\ sync[p].group = g}

GroupIndexConflict_NoIndex(g, convs) == FALSE

\* idx_conversations_group_unique: an INSERT of a GROUP row for g violates
\* the index when a committed GROUP row for g exists
GroupIndexConflict(g, convs) == ExistingGroupRows(g, convs) # {}

SyncedMembers_NoRemoval(cur, want) == cur \cup ToSet(want)

\* the members of the conversation after INSERT ... ON CONFLICT DO NOTHING
\* for every wanted user and DELETE ... WHERE NOT (user_id = ANY(wanted))
SyncedMembers(cur, want) == {u \in cur \cup ToSet(want) : u \in ToSet(want)}

CascadeMessages_None(msgs, c) == msgs

\* ON DELETE CASCADE of messages.conversation_id
CascadeMessages(msgs, c) == SelectSeq(msgs, LAMBDA m : m.conversation_id # c)

\* ON DELETE CASCADE of conversation_members.conversation_id
CascadeMembers(mem, c) == {m \in mem : m[1] # c}

ClassAfterSync_Reset(old, cls) == IF cls # Null /\ old # cls THEN cls ELSE Null

\* class_id of an existing conversation after the sync:
\* else if (classId && conversation.class_id !== classId) UPDATE
ClassAfterSync(old, cls) == IF cls # Null /\ old # cls THEN cls ELSE old

SyncArgs(p) == [group |-> sync[p].group, classId |-> sync[p].classId,
                want |-> sync[p].want]

\* p found no conversation and writes nothing, and a conversation of the
\* group has been committed since it looked: p takes effect before that
\* commit, which stays the last change of the store
StaleNoOp(p) ==
  /\ ~sync[p].found
  /\ sync[p].want = <<>>
  /\ ExistingGroupRows(sync[p].group, conversations) # {}

\* the store of SpecSync: the tables after init.sql
InitSync == Init

\* POST /internal/group-conversations/sync: normalisation and validation of
\* the body, then pool.connect and BEGIN
SyncRequest(p, g, cls, raw) ==
  /\ sync[p].pc = "idle"
  /\ nextConvId + Cardinality({q \in 1..NumSyncs : SyncInFlight(q)}) \in ConvIds
  /\ LET want == uniqueUserIds(raw)
         mine == IF g = "" \/ ~looksLikeUuid(g)
                   THEN [SyncIdle EXCEPT !.pc = "done", !.group = g, !.classId = cls,
                                         !.want = want, !.status = 400]
                   ELSE [SyncIdle EXCEPT !.pc = "select", !.group = g, !.classId = cls,
                                         !.want = want]
     IN sync' = [sync EXCEPT ![p] = mine]
  /\ UNCHANGED <<classSvc, storeVars, msgCacheVars, presenceVars, outVars, dm, msgProcVars,
                 sock, lastSync, histVars>>

SyncDeletes_Never(want) == FALSE

\* if (memberUserIds.length === 0): the conversation, if any, is deleted
\* and nothing else is written
SyncDeletes(want) == want = <<>>

\* SELECT ... FOR UPDATE: waits while another transaction holds the row,
\* then reads the committed row and locks it
SyncSelect(p) ==
  /\ sync[p].pc = "select"
  /\ LET rows == ExistingGroupRows(sync[p].group, conversations)
         next == IF SyncDeletes(sync[p].want) THEN "delete" ELSE "upsert"
     IN IF rows = {}
          THEN sync' = [sync EXCEPT ![p].found = FALSE,
                                    ![p].pc = IF SyncDeletes(sync[p].want)
                                                THEN "commit" ELSE "upsert"]
          ELSE \E c \in rows :
                 /\ ~RowLocked(c.id)
                 /\ sync' = [sync EXCEPT ![p].found = TRUE, ![p].conv = c.id,
                                         ![p].newClass = c.class_id, ![p].pc = next]
  /\ UNCHANGED <<classSvc, storeVars, msgCacheVars, presenceVars, outVars, dm, msgProcVars,
                 sock, lastSync, histVars>>

\* memberUserIds is empty and the conversation exists:
\* DELETE FROM conversations WHERE id = $1 (private until COMMIT)
SyncDelete(p) ==
  /\ sync[p].pc = "delete"
  /\ sync' = [sync EXCEPT ![p].deleted = TRUE, ![p].pc = "commit"]
  /\ UNCHANGED <<classSvc, storeVars, msgCacheVars, presenceVars, outVars, dm, msgProcVars,
                 sock, lastSync, histVars>>

\* no conversation: INSERT INTO conversations ('GROUP', classId, groupId),
\* which waits for an uncommitted insert of the same group and fails on the
\* unique index; a conversation of another class: UPDATE class_id
SyncUpsert(p) ==
  /\ sync[p].pc = "upsert"
  /\ IF ~sync[p].found
       THEN /\ UncommittedInsert(sync[p].group) \ {p} = {}
            /\ IF GroupIndexConflict(sync[p].group, conversations)
                 THEN /\ sync' = [sync EXCEPT ![p].pc = "rollback"]
                      /\ UNCHANGED nextConvId
                 ELSE /\ sync' = [sync EXCEPT ![p].pc = "members",
                                              ![p].conv = nextConvId,
                                              ![p].created = TRUE,
                                              ![p].newClass = sync[p].classId]
                      /\ nextConvId' = nextConvId + 1
       ELSE /\ sync' = [sync EXCEPT ![p].pc = "members",
                                    ![p].newClass = ClassAfterSync(@, sync[p].classId)]
            /\ UNCHANGED nextConvId
  /\ UNCHANGED <<classSvc, conversations, members, messages, dbClock, msgCacheVars, presenceVars,
                 outVars, dm, msgProcVars, sock, lastSync, histVars>>

\* INSERT INTO conversation_members ... ON CONFLICT DO NOTHING for every
\* wanted user, then DELETE of the members not wanted (private until COMMIT)
SyncMembers(p) ==
  /\ sync[p].pc = "members"
  /\ sync' = [sync EXCEPT ![p].pc = "commit"]
  /\ UNCHANGED <<classSvc, storeVars, msgCacheVars, presenceVars, outVars, dm, msgProcVars,
                 sock, lastSync, histVars>>

\* COMMIT: what the transaction wrote becomes visible.  After a delete the
\* route replies at once; otherwise it goes on to read the final members.
SyncCommit(p) ==
  /\ sync[p].pc = "commit"
  /\ LET c == sync[p].conv
     IN IF sync[p].deleted
          THEN /\ conversations' = {r \in conversations : r.id # c}
               /\ members' = CascadeMembers(members, c)
               /\ messages' = CascadeMessages(messages, c)
               /\ sync' = [sync EXCEPT ![p].pc = "done", ![p].status = 200]
          ELSE IF sync[p].conv = 0
            THEN /\ UNCHANGED <<classSvc, conversations, members, messages>>
                 /\ sync' = [sync EXCEPT ![p].pc = "done", ![p].status = 200]
            ELSE /\ conversations' = {r \in conversations : r.id # c}
                                       \cup {GroupRow(c, sync[p].newClass, sync[p].group)}
                 /\ members' = {m \in members : m[1] # c}
                      \cup {<<c, u>> : u \in SyncedMembers(MembersOf(c, members), sync[p].want)}
                 /\ UNCHANGED messages
                 /\ sync' = [sync EXCEPT ![p].pc = "final"]
  /\ lastSync' = IF StaleNoOp(p) THEN lastSync ELSE SyncArgs(p)
  /\ UNCHANGED <<classSvc, nextConvId, dbClock, msgCacheVars, presenceVars, outVars, dm,
                 msgProcVars, sock, histVars>>

\* getConversationMemberIds after COMMIT and the reply
SyncFinal(p) ==
  /\ sync[p].pc = "final"
  /\ sync' = [sync EXCEPT ![p].pc = "done", ![p].status = 200,
                          ![p].final = SortedSeq(getConversationMemberIds(sync[p].conv))]
  /\ UNCHANGED <<classSvc, storeVars, msgCacheVars, presenceVars, outVars, dm, msgProcVars,
                 sock, lastSync, histVars>>

\* catch: ROLLBACK and reply 500
SyncRollback(p) ==
  /\ sync[p].pc = "rollback"
  /\ sync' = [sync EXCEPT ![p].pc = "done", ![p].status = 500]
  /\ UNCHANGED <<classSvc, storeVars, msgCacheVars, presenceVars, outVars, dm, msgProcVars,
                 sock, lastSync, histVars>>

\* the reply has been delivered; the handler is gone
SyncReturn(p) ==
  /\ sync[p].pc = "done"
  /\ sync' = [sync EXCEPT ![p] = SyncIdle]
  /\ UNCHANGED <<classSvc, storeVars, msgCacheVars, presenceVars, outVars, dm, msgProcVars,
                 sock, lastSync, histVars>>

\* a send by a member that runs to its reply with every command succeeding:
\* isMember, INSERT INTO messages (which waits while a transaction holds
\* the conversation's row), lpush and ltrim, the unread increments
SendDelivered(c, u) ==
  /\ isMember(c, u)
  /\ ~RowLocked(c)
  /\ dbClock < MaxSyncSends
  /\ LET row == [id |-> Len(messages) + 1, conversation_id |-> c,
                 sender_user_id |-> u, body |-> "hi", created_at |-> dbClock + 1]
     IN /\ messages' = Append(messages, row)
        /\ dbClock' = dbClock + 1
        /\ cache' = [cache EXCEPT ![c] = CacheAfterPush(@, row, "none")]
        /\ unread' = [v \in Users |->
                        IF v \in UnreadTargets(c, u)
                          THEN [unread[v] EXCEPT ![c] = @ + 1]
                          ELSE unread[v]]
  /\ lastSync' = NoSync
  /\ UNCHANGED <<classSvc, conversations, members, nextConvId, presenceVars, outVars, dm,
                 msgProcVars, sock, sync, histVars>>

\* conversation:join by a socket that has not emitted it before
JoinOnce(s, c) == sock[s].ops = 0 /\ JoinEvent(s, c)

NextSync ==
  \/ \E p \in 1..NumSyncs, g \in GroupIds, cls \in ClassIds, raw \in MemberLists :
       SyncRequest(p, g, cls, raw)
  \/ \E p \in 1..NumSyncs : SyncSelect(p)
  \/ \E p \in 1..NumSyncs : SyncDelete(p)
  \/ \E p \in 1..NumSyncs : SyncUpsert(p)
  \/ \E p \in 1..NumSyncs : SyncMembers(p)
  \/ \E p \in 1..NumSyncs : SyncCommit(p)
  \/ \E p \in 1..NumSyncs : SyncFinal(p)
  \/ \E p \in 1..NumSyncs : SyncRollback(p)
  \/ \E p \in 1..NumSyncs : SyncReturn(p)
  \/ \E c \in ConvIds, u \in Users : SendDelivered(c, u)
  \/ \E s \in SyncSockets : Connect(s, TRUE)
  \/ \E s \in SyncSockets : ConnAfterIncr(s)
  \/ \E s \in SyncSockets : ConnAfterSadd(s)
  \/ \E s \in SyncSockets, c \in JoinConvs : JoinOnce(s, c)
  \/ \E s \in SyncSockets : JoinAfterMember(s)
  \/ \E s \in SyncSockets : JoinAfterIncr(s)
  \/ \E s \in SyncSockets : JoinAfterSadd(s)
  \/ \E s \in SyncSockets : JoinAck(s)

SpecSync == InitSync /\ [][NextSync]_vars

\* --------------------------------------------------------- C11 .. C17
\* the transaction of p commits in this step
SyncCommitting(p) == sync[p].pc = "commit" /\ sync'[p].pc # "commit"

\* C11: when a sync with a non-empty member list commits, the store holds
\* exactly one GROUP conversation for its group, the members of that
\* conversation are exactly the deduplicated list, and no message row has
\* changed.
C11_SyncConverges ==
  [][\A p \in 1..NumSyncs :
       (SyncCommitting(p) /\ sync[p].want # <<>>) =>
         /\ Cardinality(ExistingGroupRows(sync[p].group, conversations')) = 1
         /\ \A r \in ExistingGroupRows(sync[p].group, conversations') :
              MembersOf(r.id, members') = ToSet(sync[p].want)
         /\ messages' = messages]_vars

C11_Witness ==
  \E p \in 1..NumSyncs :
    /\ sync[p].pc = "done"
    /\ sync[p].status = 200
    /\ sync[p].found
    /\ sync[p].want = <<2, 3>>
    /\ sync[p].final = <<2, 3>>
    /\ MembersOf(sync[p].conv, members) = {2, 3}
    /\ \E i \in 1..Len(messages) :
         /\ messages[i].conversation_id = sync[p].conv
         /\ messages[i].sender_user_id = 1

\* C12: a sync that commits right after a sync with the same group, class
\* and member list has committed (no other change of the store in between)
\* leaves the conversations, the membership rows and the messages as they
\* are.
C12_SyncIdempotent ==
  [][\A p \in 1..NumSyncs :
       (SyncCommitting(p) /\ lastSync = SyncArgs(p)) =>
         /\ conversations' = conversations
         /\ members' = members
         /\ messages' = messages]_vars

C12_Witness ==
  \E p \in 1..NumSyncs, q \in 1..NumSyncs :
    /\ p # q
    /\ sync[p].pc = "done" /\ sync[p].status = 200
    /\ sync[q].pc = "done" /\ sync[q].status = 200
    /\ SyncArgs(p) = SyncArgs(q)
    /\ lastSync = SyncArgs(p)
    /\ sync[q].created
    /\ sync[p].found /\ ~sync[p].created
    /\ sync[p].want = <<1, 2>>
    /\ sync[p].classId # Null

\* C13: when a sync with an empty member list deletes the GROUP
\* conversation it found, the conversation row, all of its membership rows
\* and all of its messages are gone; the group-conversation lookup finds
\* nothing for any user and no user is a member.
C13_DisbandDeletesAll ==
  [][\A p \in 1..NumSyncs :
       (SyncCommitting(p) /\ sync[p].deleted) =>
         /\ \A r \in conversations' : r.id # sync[p].conv
         /\ ExistingGroupRows(sync[p].group, conversations') = {}
         /\ \A u \in Users : <<sync[p].conv, u>> \notin members'
         /\ \A i \in 1..Len(messages') : messages'[i].conversation_id # sync[p].conv
         /\ \A u \in Users :
              getGroupConversationForUser(sync[p].group, u, conversations', members') = {}]_vars

C13_Witness ==
  \E p \in 1..NumSyncs :
    /\ sync[p].pc = "done"
    /\ sync[p].deleted
    /\ sync[p].status = 200
    /\ sync[p].conv = 1
    /\ nextConvId = 2
    /\ dbClock = 1
    /\ messages = <<>>
    /\ members = {}

\* C14: the committed store never holds two GROUP conversations with the
\* same group reference, whatever the interleaving of sync requests.
C14_OneGroupConversationPerGroup ==
  \A g \in GroupIds : Cardinality(ExistingGroupRows(g, conversations)) <= 1

C14_Witness ==
  \E p \in 1..NumSyncs :
    /\ sync[p].pc = "rollback"
    /\ Cardinality(ExistingGroupRows(sync[p].group, conversations)) = 1

\* C15: every sync request with a valid group id ends with a success reply,
\* also when it ran concurrently with another sync of the same group for
\* which no conversation existed.
C15_ConcurrentSyncsBothSucceed ==
  \A p \in 1..NumSyncs :
    (sync[p].pc = "done" /\ looksLikeUuid(sync[p].group)) => sync[p].status = 200

\* C16: when a sync commits, every user whose membership row of a
\* conversation it removed (by member removal or by deleting the
\* conversation) has no unread counter for the conversation and is in
\* neither its presence set nor its presence counters.
C16_RemovalClearsCache ==
  [][\A p \in 1..NumSyncs :
       SyncCommitting(p) =>
         \A u \in Users, c \in ConvIds :
           (<<c, u>> \in members /\ <<c, u>> \notin members') =>
             /\ unread'[u][c] = 0
             /\ u \notin convPresenceSet'[c]
             /\ convPresenceCount'[c][u] = 0]_vars

\* C17: when a sync deletes a conversation, conversation:deleted has been
\* delivered to every socket that is in the conversation's room.
C17_DeletedEventDelivered ==
  [][\A p \in 1..NumSyncs :
       (SyncCommitting(p) /\ sync[p].deleted) =>
         \A s \in 1..NumSockets :
           sync[p].conv \in sock[s].rooms => s \in deletedEmits'[sync[p].conv]]_vars

\* ============================================================ SpecConc
\* message:send from several connections at once to the DM conversation,
\* every command of every send succeeding
InitConc == InitMsg

NextConc ==
  \/ \E p \in 1..NumConcurrent, u \in BaseMembers : SendRequest(p, "ws", BaseConv, u, "hi")
  \/ \E p \in 1..NumConcurrent : SendCheck(p)
  \/ \E p \in 1..NumConcurrent, adv \in {0, 1} : SendInsert(p, TRUE, adv)
  \/ \E p \in 1..NumConcurrent : SendCache(p, "none")
  \/ \E p \in 1..NumConcurrent :
       SendUnread(p, Cardinality(UnreadTargets(send[p].conv, send[p].user)))
  \/ \E p \in 1..NumConcurrent : SendPublish(p, TRUE)
  \/ \E p \in 1..NumConcurrent : SendFanout(p, TRUE)
  \/ \E p \in 1..NumConcurrent : SendReturn(p)

SpecConc == InitConc /\ [][NextConc]_vars

\* --------------------------------------------------------- C18 .. C20
NoSendInFlight == \A p \in Senders : ~SendInFlight(p)

\* C18: whenever no send is in flight, a non-empty cached list of a
\* conversation is, newest first, the k most recent message rows of the
\* conversation in the store, k being the length of the list.
C18_CacheMirrorsStore ==
  NoSendInFlight =>
    \A c \in ConvIds :
      cache[c] # <<>> => ParseAll(cache[c]) \in SelectRecent(c, Len(cache[c]))

\* C19: with no send in flight, a listMessages reply and the reply of the
\* same request repeated right after it (served from the cached list as
\* the first request left it) carry the same messages.
C19_RepeatedListStable ==
  NoSendInFlight =>
    \A u \in Users, c \in ConvIds, raw \in ListLimits :
      \A r \in ListReplies(u, c, raw) :
        r.status = 200 =>
          \A r2 \in ListRepliesOn(u, c, raw, r.cache) : r2.messages = r.messages

\* C20: once concurrent sends to a conversation have returned, every
\* listMessages reply carries the messages in the order of their
\* created_at, whatever the order of the senders' cache pushes.
C20_ConcurrentSendsInStoreOrder ==
  NoSendInFlight =>
    \A u \in Users, raw \in ListLimits :
      \A r \in ListReplies(u, BaseConv, raw) :
        r.status = 200 => NonDecreasing(r.messages)

\* ============================================================ C21 .. C30
\* C21: a send whose body is empty after trimming whitespace, over HTTP or
\* over message:send, fails with InvalidArgument, and no message row has a
\* body that is empty after trimming.
C21_BlankBodyRejected ==
  /\ \A p \in 1..NumSenders :
       (send[p].pc # "idle" /\ Trim(send[p].body) = "") =>
         /\ send[p].pc = "done"
         /\ send[p].result = "invalid"
         /\ send[p].msg = 0
  /\ \A i \in 1..Len(messages) : Trim(messages[i].body) # ""

\* C22: a markRead by a member U of C leaves U's unread counter of C at 0,
\* so that list-conversations of U reports unreadCount 0 for C; a second
\* markRead changes nothing more; no counter of another user or of another
\* conversation changes.  (In SpecMsg a step that changes a counter and no
\* send handler is a markRead.)
C22_MarkReadClears ==
  [][(unread' # unread /\ send' = send) =>
       \E u \in Users, c \in ConvIds :
         /\ isMember(c, u)
         /\ unread'[u][c] = 0
         /\ unreadCount(u, c)' = 0
         /\ hdel(unread'[u], c) = unread'[u]
         /\ \A u2 \in Users, c2 \in ConvIds :
              <<u2, c2>> # <<u, c>> => unread'[u2][c2] = unread[u2][c2]]_vars

\* a send by user 1 has incremented user 2's counter, user 2 has marked
\* the conversation read since
C22_Witness ==
  \E p \in 1..NumSenders :
    /\ send[p].pc = "done"
    /\ send[p].result = "ok"
    /\ send[p].cacheOk
    /\ Len(messages) = 2
    /\ \E u \in Users :
         /\ u # send[p].user
         /\ isMember(send[p].conv, u)
         /\ unread[u][send[p].conv] = 0

\* GET /conversations/group/:groupId for user u on the store (convs, mem):
\* every reply the route may give (the conversation as a set of one row)
GroupConversationRepliesOn(g, u, convs, mem) ==
  IF g = "" \/ ~looksLikeUuid(g)
    THEN {[status |-> 400, conversation |-> {}, members |-> {}]}
    ELSE LET rows == getGroupConversationForUser(g, u, convs, mem)
         IN IF rows = {}
              THEN {[status |-> 404, conversation |-> {}, members |-> {}]}
              ELSE {[status |-> 200, conversation |-> {c},
                     members |-> MembersOf(c.id, mem)] : c \in rows}

GroupConversationReplies(g, u) ==
  GroupConversationRepliesOn(g, u, conversations, members)

\* user u is a member of a GROUP conversation of group g
GroupMember(g, u) ==
  \E c \in ExistingGroupRows(g, conversations) : <<c.id, u>> \in members

\* C28: get-group-conversation(g) by user u returns a conversation exactly
\* if u is a member of the GROUP conversation of g, and then that
\* conversation; a non-member gets the reply the route gives when no GROUP
\* conversation of g exists at all, which for a well-formed g is NotFound.
C28_GroupLookupMembersOnly ==
  \A g \in GroupIds, u \in Users :
    LET R == GroupConversationReplies(g, u)
        without == conversations \ ExistingGroupRows(g, conversations)
    IN /\ (\E r \in R : r.status = 200) <=> GroupMember(g, u)
       /\ \A r \in R :
            r.status = 200 =>
              /\ r.conversation \subseteq ExistingGroupRows(g, conversations)
              /\ u \in r.members
       /\ ~GroupMember(g, u) =>
            /\ R = GroupConversationRepliesOn(g, u, without, members)
            /\ looksLikeUuid(g) =>
                 R = {[status |-> 404, conversation |-> {}, members |-> {}]}

\* the GROUP conversation of g1 exists, user 2 is a member and gets it,
\* user 1 is not and gets NotFound
C28_Witness ==
  /\ ExistingGroupRows("g1", conversations) # {}
  /\ GroupMember("g1", 2)
  /\ ~GroupMember("g1", 1)
  /\ \E r \in GroupConversationReplies("g1", 2) : r.status = 200
  /\ \A r \in GroupConversationReplies("g1", 1) : r.status = 404

\* ============================================================ SpecSock
\* socket connections with every kind of handshake, their join, typing and
\* message:send handlers, and a sync that replaces the members of the
\* conversation they use

\* the bearer token of a handshake: absent, one that jwtVerify rejects
\* (signature, issuer, audience, expiry), one that verifies but has no sub
\* claim, one that verifies and names SocketUser
Tokens == {"none", "bad", "nosub", "good"}
\* the identity provider: configured and reachable, not configured (jwks is
\* null), configured but its key set cannot be fetched
IdpStates == {"ok", "unconfigured", "unreachable"}

verifySocketToken_NoSubCheck(tok, idp) ==
  tok # "none" /\ idp = "ok" /\ tok # "bad"

\* verifySocketToken(token): TRUE when it returns the payload, FALSE when
\* it throws; the middleware then calls next(new Error("unauthorized"))
verifySocketToken(tok, idp) ==
  IF tok = "none" THEN FALSE
  ELSE IF idp = "unconfigured" THEN FALSE
  ELSE IF idp = "unreachable" \/ tok = "bad" THEN FALSE
  ELSE tok # "nosub"

\* io.use: the handshake of socket s with token tok
Handshake(s, tok, idp) == ConnectWith(s, verifySocketToken(tok, idp), <<tok, idp>>)

\* the store of SpecSock: the GROUP conversation of group g1 as a sync with
\* memberUserIds [1, 2] leaves it
InitSock ==
  /\ InitCommon
  /\ conversations = {GroupRow(BaseConv, Null, "g1")}
  /\ members = {<<BaseConv, u>> : u \in BaseMembers}
  /\ nextConvId = BaseConv + 1

\* a request emitted by the client before the connection handler has
\* registered its listeners (it does so after await markUserOnline): the
\* event has no listener, nothing runs and nothing is acknowledged
EventBeforeListeners(s) ==
  /\ sock[s].st = "live"
  /\ ~sock[s].registered
  /\ sock[s].ops < MaxOps
  /\ sock' = [sock EXCEPT ![s].ops = @ + 1, ![s].lost = @ + 1]
  /\ UNCHANGED <<classSvc, storeVars, msgCacheVars, presenceVars, outVars, dm, syncVars,
                 msgProcVars, histVars>>

\* conversation:join, a store or cache call of the handler rejects: at
\* "member" it is isMember, later it is a command of joinConversationPresence
\* or getConversationPresence.  catch: ack { ok: false }
JoinFault(s) ==
  /\ sock[s].op.kind = "join"
  /\ sock' = [sock EXCEPT ![s].op = NoOp, ![s].lastAck = "error"]
  /\ faulted' = TRUE
  /\ UNCHANGED <<classSvc, storeVars, msgCacheVars, presenceVars, outVars, dm, syncVars,
                 msgProcVars, overlapped, misuse>>

TypingRecipients_WholeRoom(s, c) ==
  {t \in 1..NumSockets : c \in sock[t].rooms}

\* socket.to(room).emit: the sockets in the room other than the emitter
TypingRecipients(s, c) ==
  {t \in 1..NumSockets : t # s /\ c \in sock[t].rooms}

\* typing:start (isTyping) and typing:stop: no await in the handler
TypingEvent(s, c, isTyping) ==
  /\ sock[s].st = "live"
  /\ sock[s].registered
  /\ sock[s].ops < MaxOps
  /\ LET has == SeqContains(sock[s].joined, c)
     IN sock' = [sock EXCEPT
          ![s].ops = @ + 1,
          ![s].lastAck = IF has THEN "ok" ELSE "error",
          ![s].lastTyping = [conv |-> c,
                             ack |-> IF has THEN "ok" ELSE "error",
                             to |-> IF has THEN TypingRecipients(s, c) ELSE {}]]
  /\ UNCHANGED <<classSvc, storeVars, msgCacheVars, presenceVars, outVars, dm, syncVars,
                 msgProcVars, histVars>>

\* message:send arrives at a registered listener of a live socket; the
\* handlers run one after the other, each keeping its outcome
SockSendRequest(s, p, c, b) ==
  /\ sock[s].st = "live"
  /\ sock[s].registered
  /\ \A q \in Senders : q < p => send[q].pc = "done"
  /\ SendRequest(p, "ws", c, sock[s].user, b)

\* the INSERT of the message waits while a transaction holds the row of
\* the conversation
SockSendInsert(p, stored) ==
  /\ ~RowLocked(send[p].conv)
  /\ SendInsert(p, stored, 1)

\* the sync that replaces the members of the conversation (once)
SockSyncRequest(p) ==
  /\ lastSync = NoSync
  /\ SyncRequest(p, "g1", Null, <<2, 3>>)

NextSock ==
  \/ \E s \in 1..NumSockets : Connect(s, TRUE)
  \/ \E s \in 1..NumSockets : ConnAfterIncr(s)
  \/ \E s \in 1..NumSockets : ConnAfterSadd(s)
  \/ \E s \in 1..NumSockets, c \in JoinConvs : JoinEvent(s, c)
  \/ \E s \in 1..NumSockets : JoinAfterMember(s)
  \/ \E s \in 1..NumSockets : JoinAfterIncr(s)
  \/ \E s \in 1..NumSockets : JoinAfterSadd(s)
  \/ \E s \in 1..NumSockets : JoinAck(s)
  \/ \E s \in 1..NumSockets, p \in Senders :
       SockSendRequest(s, p, BaseConv, "hi")
  \/ \E p \in Senders : SendCheck(p)
  \/ \E p \in Senders, stored \in BOOLEAN : SockSendInsert(p, stored)
  \/ \E p \in Senders : SendCache(p, "none")
  \/ \E p \in Senders :
       SendUnread(p, Cardinality(UnreadTargets(send[p].conv, send[p].user)))
  \/ \E p \in Senders : SendPublish(p, TRUE)
  \/ \E p \in Senders : SendFanout(p, TRUE)
  \/ SockSyncRequest(1)
  \/ SyncSelect(1)
  \/ SyncUpsert(1)
  \/ SyncMembers(1)
  \/ SyncCommit(1)
  \/ SyncFinal(1)
  \/ SyncReturn(1)

SpecSock == InitSock /\ [][NextSock]_vars

\* ============================================================ SpecRoom
\* the sockets of a member with their join, leave and typing handlers,
\* the store and cache calls of a join failing at any point
InitRoom == InitMsg

NextRoom ==
  \/ \E s \in 1..NumSockets : Connect(s, TRUE)
  \/ \E s \in 1..NumSockets : ConnAfterIncr(s)
  \/ \E s \in 1..NumSockets : ConnAfterSadd(s)
  \/ \E s \in 1..NumSockets, c \in JoinConvs : JoinEvent(s, c)
  \/ \E s \in 1..NumSockets : JoinAfterMember(s)
  \/ \E s \in 1..NumSockets : JoinAfterIncr(s)
  \/ \E s \in 1..NumSockets : JoinAfterSadd(s)
  \/ \E s \in 1..NumSockets : JoinAck(s)
  \/ \E s \in 1..NumSockets : JoinFault(s)
  \/ \E s \in 1..NumSockets, c \in JoinConvs : LeaveEvent(s, c)
  \/ \E s \in 1..NumSockets : LeaveAfterDecr(s)
  \/ \E s \in 1..NumSockets : LeaveAfterHdel(s)
  \/ \E s \in 1..NumSockets : LeaveAck(s)
  \/ \E s \in 1..NumSockets, c \in JoinConvs, t \in BOOLEAN : TypingEvent(s, c, t)

SpecRoom == InitRoom /\ [][NextRoom]_vars

\* the join handler of socket s ends in this step with ack { ok: false }
JoinFailing(s) ==
  /\ sock[s].op.kind = "join"
  /\ sock'[s].op.kind = "none"
  /\ sock'[s].lastAck = "error"

\* C23: when a conversation:join ends with ok=false - the user is not a
\* member, or a store or cache call rejected - the conversation is in the
\* socket's joinedConversations and the socket in the conversation's room
\* exactly if they were when the handler started.
C23_FailedJoinChangesNothing ==
  [][\A s \in 1..NumSockets :
       JoinFailing(s) =>
         /\ SeqContains(sock'[s].joined, sock[s].op.conv) <=> sock[s].op.hadJoined
         /\ (sock[s].op.conv \in sock'[s].rooms) <=> sock[s].op.hadRoom]_vars

\* a typing handler of socket s runs in this step (the only step of a
\* registered socket that counts a request and starts no handler)
TypingStep(s) ==
  /\ sock[s].registered
  /\ sock'[s].ops = sock[s].ops + 1
  /\ sock'[s].op = sock[s].op

\* C24: typing:start / typing:stop for a conversation that is not in the
\* socket's joinedConversations is acknowledged with an error and reaches
\* no socket; for a joined conversation it is acknowledged ok and
\* typing:update reaches exactly the other sockets in the room, never the
\* emitter; no row, cache list, unread counter or presence entry changes.
C24_TypingOnlyToOthersInRoom ==
  [][\A s \in 1..NumSockets :
       TypingStep(s) =>
         LET r == sock'[s].lastTyping
             has == SeqContains(sock[s].joined, r.conv)
         IN /\ ~has => (r.ack = "error" /\ r.to = {})
            /\ has => /\ r.ack = "ok"
                      /\ r.to = {t \in 1..NumSockets \ {s} : r.conv \in sock[t].rooms}
            /\ s \notin r.to
            /\ UNCHANGED <<classSvc, storeVars, msgCacheVars, presenceVars>>]_vars

\* one socket's typing reached the other socket in the room, and a socket
\* that had not joined was refused
C24_Witness ==
  \E s \in 1..NumSockets, t \in 1..NumSockets :
    /\ s # t
    /\ sock[s].lastTyping.ack = "ok"
    /\ sock[s].lastTyping.to = {t}
    /\ sock[t].lastTyping.ack = "error"

\* the isMember query of message:send handler p is answered in this step
SendChecking(p) ==
  /\ send[p].path = "ws"
  /\ send[p].pc = "check"
  /\ send'[p].pc # "check"

\* C25: message:send passes authorization exactly if the socket's user is
\* a member of the conversation when isMember is answered, whatever the
\* joined sets of the user's sockets: a member's send goes on to the INSERT
\* and, the row inserted, is acknowledged ok; a non-member's send is
\* refused and inserts nothing, also when the conversation is joined.
C25_SendAuthorizedByMembership ==
  [][\A p \in Senders :
       /\ SendChecking(p) =>
            IF <<send[p].conv, send[p].user>> \in members
              THEN send'[p].pc = "insert"
              ELSE /\ send'[p].pc = "done"
                   /\ send'[p].result = "forbidden"
                   /\ messages' = messages
       /\ (send'[p].pc = "done" /\ send'[p].msg # 0) => send'[p].result = "ok"
       /\ (send'[p].pc = "done" /\ send'[p].result = "forbidden") => send'[p].msg = 0]_vars

\* a send was acknowledged ok while no socket of the user had joined the
\* conversation, and a later one was refused while all of them had
C25_Witness ==
  \E p \in Senders, q \in Senders :
    /\ send[p].pc = "done" /\ send[p].result = "ok"
    /\ send[p].joinedBy = "none"
    /\ send[q].pc = "done" /\ send[q].result = "forbidden"
    /\ send[q].joinedBy = "all"

\* ============================================================ SpecAuth
\* handshakes with every kind of token, and what an accepted socket does
InitAuth == InitMsg

NextAuth ==
  \/ \E s \in 1..NumSockets, tok \in Tokens, idp \in IdpStates : Handshake(s, tok, idp)
  \/ \E s \in 1..NumSockets : ConnAfterIncr(s)
  \/ \E s \in 1..NumSockets : ConnAfterSadd(s)
  \/ \E s \in 1..NumSockets, c \in JoinConvs : JoinEvent(s, c)
  \/ \E s \in 1..NumSockets : JoinAfterMember(s)
  \/ \E s \in 1..NumSockets : JoinAfterIncr(s)
  \/ \E s \in 1..NumSockets : JoinAfterSadd(s)
  \/ \E s \in 1..NumSockets : JoinAck(s)

SpecAuth == InitAuth /\ [][NextAuth]_vars

\* the handshake of socket s has been handled and its token was missing,
\* invalid or without sub, or the identity provider could not be used
BadHandshake(s) ==
  /\ sock[s].cred[1] # "unset"
  /\ \/ sock[s].cred[1] \in {"none", "bad", "nosub"}
     \/ sock[s].cred[2] \in {"unconfigured", "unreachable"}

\* C26: a connection whose token is missing, invalid, without a sub claim
\* or not verifiable (identity provider not configured or unreachable) is
\* rejected and has no user, listener, joined conversation or room; every
\* socket counter, online-set entry, conversation presence entry and
\* presence broadcast is accounted for by the accepted connections.
C26_BadTokenRejectedStateless ==
  /\ \A s \in 1..NumSockets :
       BadHandshake(s) =>
         /\ sock[s].st = "rejected"
         /\ sock[s].user = 0
         /\ ~sock[s].registered
         /\ sock[s].conn = "none"
         /\ sock[s].joined = <<>>
         /\ sock[s].rooms = {}
         /\ sock[s].op = NoOp
  /\ \A u \in Users :
       LET good == {s \in 1..NumSockets : /\ sock[s].st = "live"
                                          /\ sock[s].user = u
                                          /\ ~BadHandshake(s)}
       IN /\ userSocketCount[u] = Cardinality(good)
          /\ u \in onlineUsers => good # {}
          /\ \A c \in ConvIds :
               /\ convPresenceCount[c][u] > 0 => good # {}
               /\ u \in convPresenceSet[c] => good # {}
               /\ onlineEmits[c][u] > 0 => good # {}

\* one handshake was rejected because the key set could not be fetched,
\* another was accepted and its socket is online
C26_Witness ==
  \E s \in 1..NumSockets, t \in 1..NumSockets :
    /\ sock[s].cred = <<"good", "unreachable">>
    /\ sock[s].st = "rejected"
    /\ sock[t].cred = <<"good", "ok">>
    /\ sock[t].st = "live"
    /\ sock[t].user \in onlineUsers

\* ============================================================ SpecAck
\* the requests of live sockets and the acknowledgements of their handlers
\* the sockets that emit requests
AckSockets == {1}

InitAck == InitMsg

\* the steps a handler of socket s takes once a call it awaits has settled
SocketProgress(s) ==
  \/ ConnAfterIncr(s)
  \/ ConnAfterSadd(s)
  \/ JoinAfterMember(s)
  \/ JoinAfterIncr(s)
  \/ JoinAfterSadd(s)
  \/ JoinAck(s)
  \/ LeaveAfterDecr(s)
  \/ LeaveAfterHdel(s)
  \/ LeaveAck(s)

\* the steps of message:send handler p once a call it awaits has settled
SendProgress(p) ==
  \/ SendCheck(p)
  \/ \E stored \in BOOLEAN : SendInsert(p, stored, 1)
  \/ SendCache(p, "none")
  \/ SendUnread(p, Cardinality(UnreadTargets(send[p].conv, send[p].user)))
  \/ SendPublish(p, TRUE)
  \/ SendFanout(p, TRUE)
  \/ SendReturn(p)

NextAck ==
  \/ \E s \in AckSockets : Connect(s, TRUE)
  \/ \E s \in AckSockets : EventBeforeListeners(s)
  \/ \E s \in AckSockets, c \in JoinConvs : JoinEvent(s, c)
  \/ \E s \in AckSockets : JoinFault(s)
  \/ \E s \in AckSockets, c \in JoinConvs : LeaveEvent(s, c)
  \/ \E s \in AckSockets, c \in JoinConvs, t \in BOOLEAN : TypingEvent(s, c, t)
  \/ \E s \in AckSockets, p \in 1..NumSenders, b \in Bodies :
       SockSendRequest(s, p, BaseConv, b)
  \/ \E s \in AckSockets : SocketProgress(s)
  \/ \E p \in 1..NumSenders : SendProgress(p)

\* every call a handler awaits settles (redis gives up after
\* maxRetriesPerRequest, the store answers or errors), and the event loop
\* then runs the handler's continuation
FairAck ==
  /\ \A s \in AckSockets : WF_vars(SocketProgress(s))
  /\ \A p \in 1..NumSenders : WF_vars(SendProgress(p))

SpecAck == InitAck /\ [][NextAck]_vars /\ FairAck

\* a request of socket s has not been acknowledged
RequestPending(s) == OpInFlight(s) \/ sock[s].lost > 0

\* C27: every conversation:join, conversation:leave, typing:start,
\* typing:stop and message:send that a live connection emits with an
\* acknowledgement callback is eventually acknowledged.
C27_EveryRequestAcknowledged ==
  /\ \A s \in AckSockets : RequestPending(s) ~> ~RequestPending(s)
  /\ \A p \in 1..NumSenders : SendInFlight(p) ~> ~SendInFlight(p)

\* GET /conversations/:conversationId/presence: 403 for a non-member,
\* else the SMEMBERS of the conversation's online set
PresenceReply(u, c) ==
  IF ~isMember(c, u)
    THEN [status |-> 403, onlineUserIds |-> {}]
    ELSE [status |-> 200, onlineUserIds |-> convPresenceSet[c]]

\* what listMessages, markRead and get-presence reply to the users that
\* have no membership row: 403, the cached list and the unread hashes as
\* they are
NonMemberHttpRefused ==
  \A u \in Users, c \in ConvIds :
    <<c, u>> \notin members =>
      /\ \A raw \in ListLimits :
           \A r \in ListReplies(u, c, raw) : r.status = 403 /\ r.cache = cache[c]
      /\ MarkReadReply(u, c) = [status |-> 403, unread |-> unread]
      /\ PresenceReply(u, c) = [status |-> 403, onlineUserIds |-> {}]

\* the isMember query of the join handler of socket s is answered in this
\* step and finds no membership row
JoinRefusing(s) ==
  /\ sock[s].op.kind = "join"
  /\ sock[s].op.pc = "member"
  /\ sock'[s].op # sock[s].op
  /\ <<sock[s].op.conv, sock[s].user>> \notin members

\* C29: listMessages, markRead and get-presence by a user who is not a
\* member reply 403 and conversation:join acknowledges an error; none of
\* them changes a row, a cached list, an unread counter, a presence entry,
\* a broadcast or the socket's joined set and rooms.
C29_NonMemberCallsChangeNothing ==
  [][/\ NonMemberHttpRefused
     /\ NonMemberHttpRefused'
     /\ \A s \in 1..NumSockets :
          JoinRefusing(s) =>
            /\ sock'[s].op = NoOp
            /\ sock'[s].lastAck = "error"
            /\ sock'[s].joined = sock[s].joined
            /\ sock'[s].rooms = sock[s].rooms
            /\ UNCHANGED <<classSvc, storeVars, msgCacheVars, presenceVars, outVars>>]_vars

\* user 1 is no longer a member of the conversation, which has a message,
\* a cached list and an unread counter, and the join of a socket of user 1
\* that had not joined has been refused
C29_Witness ==
  /\ <<BaseConv, 1>> \notin members
  /\ MsgIds(BaseConv) # {}
  /\ cache[BaseConv] # <<>>
  /\ \E u \in Users : unread[u][BaseConv] > 0
  /\ \E s \in 1..NumSockets :
       /\ sock[s].user = 1
       /\ sock[s].ops = 1
       /\ BaseConv \in sock[s].everJoined
       /\ ~OpInFlight(s)
       /\ sock[s].lastAck = "error"
       /\ sock[s].joined = <<>>
       /\ sock[s].rooms = {}

\* ============================================================ SpecCap
\* sends to a conversation whose cached list is full
\* the length of a full cached list: ltrim(key, 0, 199) keeps 200 entries
CacheCap == CacheTrimEnd + 1

\* the sends made on top of the full list
MaxCapSends == 2

\* row i of a conversation to which user 1 has sent CacheCap messages
FillRow(i) == [id |-> i, conversation_id |-> BaseConv, sender_user_id |-> 1,
               body |-> "hi", created_at |-> i]

\* the store and the cache after CacheCap sends by user 1, every cache
\* command having succeeded, and a markRead by user 2
InitCap ==
  /\ messages = [i \in 1..CacheCap |-> FillRow(i)]
  /\ dbClock = CacheCap
  /\ cache = [c \in ConvIds |->
                IF c = BaseConv
                  THEN [i \in 1..CacheCap |-> JsonStringify(FillRow(CacheCap + 1 - i))]
                  ELSE <<>>]
  /\ InitProcesses
  /\ conversations = {DmRow(BaseConv)}
  /\ members = {<<BaseConv, u>> : u \in BaseMembers}
  /\ nextConvId = BaseConv + 1

\* a send request arrives while fewer than MaxCapSends rows were added
CapSendRequest(p, path, u, b) ==
  /\ Len(messages) + Cardinality({q \in Senders :
                                    send[q].pc \in {"check", "insert"}})
       < CacheCap + MaxCapSends
  /\ SendArrives(p, path, BaseConv, u, b)

NextCap ==
  \/ \E p \in 1..NumSenders, path \in {"http", "ws"}, u \in Users, b \in Bodies :
        CapSendRequest(p, path, u, b)
  \/ \E p \in 1..NumSenders : SendCheck(p)
  \/ \E p \in 1..NumSenders, stored \in BOOLEAN : SendInsert(p, stored, 1)
  \/ \E p \in 1..NumSenders, f \in {"none", "lpush", "ltrim", "expire"} : SendCache(p, f)
  \/ \E p \in 1..NumSenders, k \in 0..Cardinality(Users) : SendUnread(p, k)
  \/ \E p \in 1..NumSenders, sent \in BOOLEAN : SendPublish(p, sent)
  \/ \E p \in 1..NumSenders, emitted \in BOOLEAN : SendFanout(p, emitted)
  \/ \E p \in 1..NumSenders : SendReturn(p)
  \/ \E u \in Users, raw \in {1, 2} : ListMessages(u, BaseConv, raw)
  \/ \E u \in Users : MarkRead(u, BaseConv)

SpecCap == InitCap /\ [][NextCap]_vars

\* C30: whenever no send is in flight, the cached recent-message list of
\* every conversation holds at most 200 entries
C30_CacheAtMostCap ==
  NoSendInFlight => \A c \in ConvIds : Len(cache[c]) <= CacheCap

\* ============================================================ SpecDmSeq
\* the two endpoints that create or get a DM conversation, one request at
\* a time
\* the conversations a behaviour may create
MaxDmConvs == 3

\* body.otherUserId and the elements of body.memberUserIds: absent or
\* empty, a user id, a user id with surrounding blanks
RawIds == {"", "1", " 1 ", "2", "3"}

\* normalizeUserId(value) = String(value || "").trim(); 0 stands for ""
normalizeUserId(raw) ==
  CASE raw = "1" -> 1
    [] raw = " 1 " -> 1
    [] raw = "2" -> 2
    [] raw = "3" -> 3
    [] OTHER -> 0

\* body.type as sent
RawTypes == {"DM", "dm", "GROUP", "x"}

\* normalizeType(rawType): upper-cased and trimmed, null unless DM, CLASS
\* or GROUP
normalizeType(raw) ==
  CASE raw \in {"DM", "dm"} -> "DM"
    [] raw = "GROUP" -> "GROUP"
    [] OTHER -> Null

\* body.memberUserIds
RawLists == {<<>>, <<"1">>, <<"1", " 1 ">>, <<"", "2">>, <<"1", "2">>,
             <<"2", "1">>, <<"3", "2">>, <<"1", "2", "3">>}

RECURSIVE NormalizedIds(_)
\* uniqueUserIds normalizes every value and skips the empty ones
NormalizedIds(list) ==
  IF list = <<>> THEN <<>>
  ELSE LET u == normalizeUserId(Head(list))
       IN IF u = 0 THEN NormalizedIds(Tail(list))
                   ELSE <<u>> \o NormalizedIds(Tail(list))

\* memberUserIds.find((userId) => userId !== requesterId) || ""
OtherOf(ids, a) ==
  IF \E i \in 1..Len(ids) : ids[i] # a
    THEN ids[CHOOSE i \in 1..Len(ids) :
               ids[i] # a /\ \A j \in 1..(i - 1) : ids[j] = a]
    ELSE 0

DmRouteChecks_NoSelfCheck(a, raw) ==
  LET other == normalizeUserId(raw)
  IN IF other = 0 THEN [status |-> 400, other |-> 0]
     ELSE [status |-> 0, other |-> other]

\* POST /conversations/dm: the checks before createOrGetDmConversation;
\* status 0 means the request goes on with `other`
DmRouteChecks(a, raw) ==
  LET other == normalizeUserId(raw)
  IN IF other = 0 THEN [status |-> 400, other |-> 0]
     ELSE IF other = a THEN [status |-> 400, other |-> other]
     ELSE [status |-> 0, other |-> other]

\* POST /conversations: the checks before createOrGetDmConversation
ConversationsRouteChecks(a, rawType, list) ==
  LET type == normalizeType(rawType)
      memberUserIds == uniqueUserIds(NormalizedIds(list))
      other == OtherOf(memberUserIds, a)
  IN IF type = Null THEN [status |-> 400, other |-> 0]
     ELSE IF type # "DM" THEN [status |-> 403, other |-> 0]
     ELSE IF Len(memberUserIds) # 2 THEN [status |-> 400, other |-> 0]
     ELSE IF ~SeqContains(memberUserIds, a) THEN [status |-> 403, other |-> 0]
     ELSE IF other = 0 THEN [status |-> 400, other |-> 0]
     ELSE [status |-> 0, other |-> other]

\* no create-or-get request is running
DmNoneRunning == \A q \in 1..NumDmCalls : dm[q].pc \in {"idle", "done"}

\* a request is received: rejected at once, or createOrGetDmConversation
\* starts
DmReceive(p, a, route, rawType, args, checks) ==
  /\ dm[p].pc = "idle"
  /\ DmNoneRunning
  /\ nextConvId <= MaxDmConvs
  /\ dm' = [dm EXCEPT ![p] =
       [@ EXCEPT !.requester = a, !.route = route, !.type = rawType,
                 !.args = args, !.other = checks.other,
                 !.status = checks.status,
                 !.pc = IF checks.status = 0 THEN "find" ELSE "done"]]
  /\ UNCHANGED <<classSvc, storeVars, msgCacheVars, presenceVars, outVars, msgProcVars,
                 syncVars, sock, histVars>>

\* POST /conversations/dm with body.otherUserId = raw
DmRouteRequest(p, a, raw) ==
  DmReceive(p, a, "dm", "none", <<raw>>, DmRouteChecks(a, raw))

\* POST /conversations with body.type and body.memberUserIds
ConversationsRequest(p, a, rawType, list) ==
  DmReceive(p, a, "conversations", rawType, list,
            ConversationsRouteChecks(a, rawType, list))

\* the reply has been sent: the slot takes the next request
DmForget(p) ==
  /\ dm[p].pc = "done"
  /\ dm' = [dm EXCEPT ![p] = DmIdle]
  /\ UNCHANGED <<classSvc, storeVars, msgCacheVars, presenceVars, outVars, msgProcVars,
                 syncVars, sock, histVars>>

NextDmSeq ==
  \/ \E p \in 1..NumDmCalls, a \in Users, raw \in RawIds : DmRouteRequest(p, a, raw)
  \/ \E p \in 1..NumDmCalls, a \in Users, t \in RawTypes, list \in RawLists :
        ConversationsRequest(p, a, t, list)
  \/ \E p \in 1..NumDmCalls : DmFind(p)
  \/ \E p \in 1..NumDmCalls : DmRecheck(p)
  \/ \E p \in 1..NumDmCalls : DmInsertConversation(p)
  \/ \E p \in 1..NumDmCalls : DmInsertMembers(p)
  \/ \E p \in 1..NumDmCalls : DmCommit(p)
  \/ \E p \in 1..NumDmCalls : DmReply(p)
  \/ \E p \in 1..NumDmCalls : DmForget(p)

SpecDmSeq == Init /\ [][NextDmSeq]_vars

\* ------------------------------------------------------------- C31
\* the request of slot p asks for a DM of its requester with themself
SelfDm(d) ==
  \/ d.route = "dm" /\ normalizeUserId(d.args[1]) = d.requester
  \/ /\ d.route = "conversations"
     /\ normalizeType(d.type) = "DM"
     /\ ToSet(NormalizedIds(d.args)) = {d.requester}

\* C31: a create-or-get-DM request whose other user is the requester (on
\* POST /conversations/dm, or on POST /conversations with type DM and a
\* member list naming only the requester) is answered 400 at once and
\* leaves the conversation and membership rows as they were.
C31_SelfDmRejected ==
  [][\A p \in 1..NumDmCalls :
       (dm[p].pc = "idle" /\ dm'[p].pc # "idle" /\ SelfDm(dm'[p])) =>
          /\ dm'[p].pc = "done"
          /\ dm'[p].status = 400
          /\ conversations' = conversations
          /\ members' = members
          /\ nextConvId' = nextConvId]_vars

C31_Witness ==
  /\ conversations # {}
  /\ \E p, q \in 1..NumDmCalls :
       /\ dm[p].pc = "done" /\ dm[p].route = "dm" /\ SelfDm(dm[p])
       /\ dm[p].args = <<" 1 ">> /\ dm[p].status = 400
       /\ dm[q].pc = "done" /\ dm[q].route = "conversations" /\ SelfDm(dm[q])
       /\ Len(dm[q].args) = 2 /\ dm[q].status = 400

\* ------------------------------------------------------------- C32
\* the call of slot p gets its conversation in this step: found by the
\* lookup, or committed
DmSettles(p) == dm[p].pc \in {"find", "commit"} /\ dm'[p].pc = "members"

\* C32: with one call at a time, a create-or-get call for a pair that has
\* a DM conversation returns that conversation with created = false and
\* adds no row; a call for a pair that has none adds one conversation with
\* the two membership rows and returns it with created = true.  No pair
\* ever has two DM conversations, and rows are added by no other step.
C32_SequentialDmIdempotent ==
  /\ [](\A a, b \in Users : Cardinality(DmConversationsOf(a, b)) <= 1)
  /\ [][/\ \A p \in 1..NumDmCalls :
          LET a == dm[p].requester
              b == dm[p].other
              old == DmConversationsOf(a, b)
          IN /\ DmSettles(p) =>
                  /\ dm'[p].created = (old = {})
                  /\ old # {} => /\ dm'[p].conv \in {c.id : c \in old}
                                 /\ conversations' = conversations
                                 /\ members' = members
                  /\ old = {} => /\ conversations' = conversations \cup {DmRow(dm'[p].conv)}
                                 /\ DmRow(dm'[p].conv) \notin conversations
                                 /\ members' = members \cup {<<dm'[p].conv, a>>,
                                                             <<dm'[p].conv, b>>}
             /\ (dm[p].pc = "members" /\ dm'[p].pc = "done") =>
                  dm'[p].status = IF dm[p].created THEN 201 ELSE 200
        /\ ((conversations' # conversations \/ members' # members)
              => \E q \in 1..NumDmCalls : DmSettles(q))]_vars

\* a pair's conversation was created by one call and then returned, not
\* created, to a call with the arguments swapped
C32_Witness ==
  \E p, q \in 1..NumDmCalls :
    /\ dm[p].pc = "done" /\ dm[p].status = 201
    /\ dm[q].pc = "done" /\ dm[q].status = 200
    /\ dm[q].requester = dm[p].other /\ dm[q].other = dm[p].requester
    /\ dm[q].conv = dm[p].conv
    /\ Cardinality(conversations) = 1

\* ------------------------------------------------------------- C33
\* the insert of send p fails in this step
InsertFails(p) == send[p].pc = "insert" /\ send'[p].pc \notin {"insert", "cache"}

\* C33: when the insert of a message fails, the send ends with an explicit
\* error (HTTP 500, ack ok=false), no row is stored, and the cached lists,
\* the unread counters, the events and the fan-out are as before: the
\* handler published nothing and emitted nothing.
C33_FailedInsertChangesNothing ==
  /\ [][\A p \in 1..NumSenders :
          InsertFails(p) =>
            /\ send'[p].pc = "done"
            /\ send'[p].result = "error"
            /\ send'[p].msg = 0
            /\ ~send'[p].published
            /\ ~send'[p].emitted
            /\ messages' = messages
            /\ cache' = cache
            /\ unread' = unread
            /\ lastAcked' = lastAcked]_vars
  /\ [][\A p \in 1..NumSenders :
          (send[p].pc = "done" /\ send[p].result = "error" /\ send'[p] # send[p])
             => send'[p] = SendIdle /\ cache' = cache /\ unread' = unread]_vars

\* a send by a member has failed at the insert while the conversation has
\* a cached list and an unread counter from an earlier send
C33_Witness ==
  \E p \in 1..NumSenders :
    /\ send[p].pc = "done"
    /\ send[p].result = "error"
    /\ isMember(send[p].conv, send[p].user)
    /\ cache[send[p].conv] # <<>>
    /\ \E u \in Users : unread[u][send[p].conv] > 0

\* ============================================================ SpecList
\* sends, list reads and cache expiries one after the other, every cache
\* command, publish and emit succeeding
\* GET /conversations/:conversationId/messages between two sends
SeqList(u, c, raw) == NoSendInFlight /\ ListMessages(u, c, raw)

\* the cached list expires between two sends
SeqExpire(c) == NoSendInFlight /\ CacheExpire(c)

NextList ==
  \/ \E p \in 1..NumSenders, path \in {"http", "ws"}, c \in ConvIds,
        u \in Users, b \in Bodies : SendRequest(p, path, c, u, b)
  \/ \E p \in 1..NumSenders : SendCheck(p)
  \/ \E p \in 1..NumSenders : SendInsert(p, TRUE, 1)
  \/ \E p \in 1..NumSenders : SendCache(p, "none")
  \/ \E p \in 1..NumSenders :
       SendUnread(p, Cardinality(UnreadTargets(send[p].conv, send[p].user)))
  \/ \E p \in 1..NumSenders : SendPublish(p, TRUE)
  \/ \E p \in 1..NumSenders : SendFanout(p, TRUE)
  \/ \E p \in 1..NumSenders : SendReturn(p)
  \/ \E u \in Users, c \in ConvIds, raw \in ListLimits : SeqList(u, c, raw)
  \/ \E c \in ConvIds : SeqExpire(c)

SpecList == InitMsg /\ [][NextList]_vars

\* ------------------------------------------------------------- C34
\* the n most recent message rows of conversation c in the store
MostRecent(c, n) ==
  {messages[i] : i \in {k \in MsgIds(c) :
      Cardinality({j \in MsgIds(c) :
                     messages[j].created_at > messages[k].created_at}) < n}}

\* C34: between sends, every list read by a member returns exactly the
\* min(limit, 200, number of messages) most recent messages of the
\* conversation in the store.
C34_ListReturnsMostRecent ==
  NoSendInFlight =>
    \A u \in Users, c \in ConvIds, raw \in ListLimits :
      isMember(c, u) =>
        \A r \in ListReplies(u, c, raw) :
          /\ r.status = 200
          /\ Len(r.messages) = Min(ClampLimit(raw), Cardinality(MsgIds(c)))
          /\ ToSet(r.messages) = MostRecent(c, ClampLimit(raw))

\* ------------------------------------------------------------- C35
\* C35: when handlers never overlap and no redis command fails, between
\* handlers the join counter of (C, U) is the number of U's live
\* connections whose joined set contains C - also after a connection
\* joined C twice or left a conversation it had not joined.
C35_JoinCounterMatchesJoinedSets ==
  (Quiescent /\ ~overlapped /\ ~faulted /\ ClosedSocketsCleaned) =>
    \A c \in ConvIds, u \in Users :
      convPresenceCount[c][u] = Cardinality(LiveJoined(c, u))

\* ------------------------------------------------------------- C36
\* io.to(conversationRoom(c)).emit: the live sockets in the room of c
RoomSockets(c) ==
  {s \in 1..NumSockets : sock[s].st = "live" /\ c \in sock[s].rooms}

\* send p emits message:new to the room in this step
FanoutStep(p) == send[p].pc = "emit" /\ send'[p].pc = "done" /\ send'[p].emitted

\* C36: message:new for a conversation is delivered only to connections of
\* users who are members of it at that moment: a user whose membership a
\* sync has removed receives none, even on a connection that joined the
\* room before the removal.
C36_NoDeliveryAfterRemoval ==
  [][\A p \in Senders :
       FanoutStep(p) =>
         \A s \in RoomSockets(send[p].conv) :
           <<send[p].conv, sock[s].user>> \in members]_vars

\* ------------------------------------------------------------- C37
\* the message row of send p is inserted in this step
InsertStep(p) == send[p].pc = "insert" /\ send'[p].pc = "cache"

\* C37: a message row is inserted only while its sender has a membership
\* row of the conversation, whatever the interleaving of the send with a
\* sync that removes the sender.
C37_InsertedWhileMember ==
  [][\A p \in Senders :
       InsertStep(p) => <<send[p].conv, send[p].user>> \in members]_vars

\* ============================================================ SpecGroup
\* the group operations of the class service on one group (owner: user 1)
\* and the sync calls they make to the messaging service
\* the group operations of a behaviour
MaxGroupOps == 3

\* the group, its class and its owner
TheGroup == "g1"
TheClass == "cA"
GroupOwner == 1

\* a group operation commits its transaction on slot q: the class store
\* becomes [exists, members] and the operation goes on at pc
GroupCommit(q, kind, exists, mem, pc) ==
  /\ classSvc.op[q].pc = "idle"
  /\ sync[q].pc = "idle"
  /\ classSvc.started < MaxGroupOps
  /\ classSvc' = [classSvc EXCEPT !.exists = exists, !.members = mem,
                                  !.created = TRUE, !.started = @ + 1,
                                  !.op[q] = [pc |-> pc, kind |-> kind, list |-> <<>>]]
  /\ UNCHANGED <<storeVars, msgCacheVars, presenceVars, outVars, dm, msgProcVars,
                 syncVars, sock, histVars>>

\* POST /:classId/groups: INSERT INTO groups, INSERT INTO group_members
\* (the owner), COMMIT
GroupCreate(q) ==
  /\ ~classSvc.created
  /\ GroupCommit(q, "create", TRUE, <<GroupOwner>>, "load")

\* POST /groups/:groupId/requests/:userId/approve by the owner: the group
\* row is locked, the pending request of u is approved and u inserted
GroupApprove(q, u) ==
  /\ classSvc.exists
  /\ ~SeqContains(classSvc.members, u)
  /\ GroupCommit(q, "approve", TRUE, Append(classSvc.members, u), "load")

\* POST /groups/:groupId/leave by member u: the owner may leave only as the
\* last member, which deletes the group; another member's row is deleted
GroupLeave(q, u) ==
  /\ classSvc.exists
  /\ SeqContains(classSvc.members, u)
  /\ ~(u = GroupOwner /\ Len(classSvc.members) > 1)
  /\ IF Len(classSvc.members) <= 1
       THEN GroupCommit(q, "leave", FALSE, <<>>, "call")
       ELSE GroupCommit(q, "leave", TRUE, SetDelete(classSvc.members, u), "load")

\* DELETE /groups/:groupId by the owner: DELETE FROM groups (the member
\* rows go with it)
GroupDisband(q) ==
  /\ classSvc.exists
  /\ GroupCommit(q, "disband", FALSE, <<>>, "call")

\* loadGroupMembers(groupId) after the COMMIT, outside the transaction
GroupLoadMembers(q) ==
  /\ classSvc.op[q].pc = "load"
  /\ classSvc' = [classSvc EXCEPT !.op[q].pc = "call",
                                  !.op[q].list = classSvc.members]
  /\ UNCHANGED <<storeVars, msgCacheVars, presenceVars, outVars, dm, msgProcVars,
                 syncVars, sock, histVars>>

\* syncGroupConversation: POST /internal/group-conversations/sync with the
\* list the operation holds
GroupSyncCall(q) ==
  /\ classSvc.op[q].pc = "call"
  /\ SyncRequest(q, TheGroup, TheClass, classSvc.op[q].list)

\* the sync call is answered (an error is only logged) and the operation
\* replies
GroupOpReturn(q) ==
  /\ classSvc.op[q].pc = "call"
  /\ sync[q].pc = "done"
  /\ classSvc' = [classSvc EXCEPT !.op[q] = GroupOpIdle,
                                  !.syncFailed = @ \/ sync[q].status # 200]
  /\ sync' = [sync EXCEPT ![q] = SyncIdle]
  /\ UNCHANGED <<storeVars, msgCacheVars, presenceVars, outVars, dm, msgProcVars,
                 lastSync, sock, histVars>>

InitGroup == Init

NextGroup ==
  \/ \E q \in 1..NumSyncs : GroupCreate(q)
  \/ \E q \in 1..NumSyncs, u \in Users : GroupApprove(q, u)
  \/ \E q \in 1..NumSyncs, u \in Users : GroupLeave(q, u)
  \/ \E q \in 1..NumSyncs : GroupDisband(q)
  \/ \E q \in 1..NumSyncs : GroupLoadMembers(q)
  \/ \E q \in 1..NumSyncs : GroupSyncCall(q)
  \/ \E q \in 1..NumSyncs : GroupOpReturn(q)
  \/ \E p \in 1..NumSyncs : SyncSelect(p)
  \/ \E p \in 1..NumSyncs : SyncDelete(p)
  \/ \E p \in 1..NumSyncs : SyncUpsert(p)
  \/ \E p \in 1..NumSyncs : SyncMembers(p)
  \/ \E p \in 1..NumSyncs : SyncCommit(p)
  \/ \E p \in 1..NumSyncs : SyncFinal(p)
  \/ \E p \in 1..NumSyncs : SyncRollback(p)

SpecGroup == InitGroup /\ [][NextGroup]_vars

\* ------------------------------------------------------------- C38
\* every group operation begun has replied
GroupOpsDone ==
  /\ classSvc.started > 0
  /\ \A q \in 1..NumSyncs : classSvc.op[q].pc = "idle" /\ sync[q].pc = "idle"

\* C38: once all group operations have completed, every sync call having
\* succeeded, the conversation of the group has exactly the members the
\* group has in the class store, and there is no conversation when the
\* group no longer exists.
C38_ConversationConvergesToGroup ==
  (GroupOpsDone /\ ~classSvc.syncFailed) =>
    IF classSvc.exists
      THEN \E c \in ExistingGroupRows(TheGroup, conversations) :
             MembersOf(c.id, members) = ToSet(classSvc.members)
      ELSE ExistingGroupRows(TheGroup, conversations) = {}

\* ============================================================ SpecCrash
\* connections, joins and disconnects around a stop of the gateway process
\* that runs no disconnect handler
\* the process stops and start() runs again: the sockets and the handlers
\* in flight are gone with the process memory, redis keeps its keys, and
\* start() touches none of them
GatewayCrash ==
  /\ \E s \in 1..NumSockets : sock[s].st = "live"
  /\ sock' = [s \in 1..NumSockets |->
                IF sock[s].st = "live" \/ HandlerInFlight(s)
                  THEN [SockInit EXCEPT !.st = "crashed", !.user = sock[s].user]
                  ELSE sock[s]]
  /\ UNCHANGED <<classSvc, storeVars, msgCacheVars, presenceVars, outVars, dm,
                 msgProcVars, syncVars, histVars>>

\* the steps of the connection, join and disconnect handlers of socket s
\* once the redis call they await has settled
CrashProgress(s) ==
  \/ ConnAfterIncr(s)
  \/ ConnAfterSadd(s)
  \/ JoinAfterMember(s)
  \/ JoinAfterIncr(s)
  \/ JoinAfterSadd(s)
  \/ JoinAck(s)
  \/ DiscAfterDecr(s, FALSE)
  \/ DiscAfterHdel(s)
  \/ DiscAfterSrem(s, FALSE)
  \/ DiscAfterGdecr(s)
  \/ DiscAfterGdel(s)
  \/ DiscAfterGsrem(s)

InitCrash == InitMsg

NextCrash ==
  \/ \E s \in 1..NumSockets : Connect(s, TRUE)
  \/ \E s \in 1..NumSockets, c \in JoinConvs : JoinEvent(s, c)
  \/ \E s \in 1..NumSockets : Disconnect(s, FALSE)
  \/ \E s \in 1..NumSockets : CrashProgress(s)
  \/ GatewayCrash

\* every redis call a handler awaits settles and the handler goes on; the
\* clients and the crash are under no obligation
FairCrash == \A s \in 1..NumSockets : WF_vars(CrashProgress(s))

SpecCrash == InitCrash /\ [][NextCrash]_vars /\ FairCrash

\* ------------------------------------------------------------- C39
GatewayCrashed == \E s \in 1..NumSockets : sock[s].st = "crashed"

\* no online set holds a user who has no live connection
NoStalePresence ==
  \A u \in Users :
    LiveSockets(u) = {} =>
      /\ u \notin onlineUsers
      /\ \A c \in ConvIds : u \notin convPresenceSet[c]

\* C39: after the gateway stopped without running its disconnect handlers
\* and came back, the online sets eventually hold no user who has no live
\* connection.
C39_StalePresenceCleared == GatewayCrashed ~> NoStalePresence

\* ------------------------------------------------------------- C40
\* C40: in every committed state of the store each GROUP conversation has
\* at least one membership row, whatever the interleaving of the sync
\* requests.
C40_GroupConversationHasMember ==
  \A c \in conversations :
    c.type = "GROUP" => MembersOf(c.id, members) # {}

\* a sync with an empty member list has deleted the conversation it found
\* and the store holds no conversation of the group
C40_Witness ==
  \E p \in 1..NumSyncs :
    /\ sync[p].pc = "done"
    /\ sync[p].found
    /\ sync[p].deleted
    /\ sync[p].want = <<>>
    /\ ExistingGroupRows(sync[p].group, conversations) = {}

====
